---- MODULE Spec2Model ----
(***************************************************************************)
(* A model of the AI model seeding pipeline: the seeding client's retry    *)
(* loop (pipeline/seeder.py), the directory passes of the model mapper and *)
(* the seeder (pipeline/model_mapper.py, pipeline/seeder.py), the stage    *)
(* runner (pipeline/pipeline.py), the command line entry point             *)
(* (run_pipeline.py) and the tag mappers (pipeline/tag_mapper.py).         *)
(*                                                                         *)
(* Each subsystem has its own specification (SpecSeed, SpecDir, ...) over  *)
(* its own variables; the variables of the other subsystems stay at their  *)
(* idle values.                                                            *)
(***************************************************************************)
EXTENDS Integers, Sequences, FiniteSets, TLC

VARIABLES
  \* ---- RestApiSeeder.seed_model ----
  retries,        \* self.retries, the attempt budget
  attempt,        \* the local 'attempt' of _seed_model_impl
  posts,          \* number of requests.post calls issued so far
  responses,      \* what the transport answered to each POST, in order
  seed_pc,        \* "idle" | "loop" | "done"
  seed_result,    \* the dictionary seed_model returned
  \* ---- BaseModelMapper.map_directory ----
  map_n,          \* number of *.json files in the input directory
  map_idx,        \* input files handled so far
  out_dir,        \* the mapped directory: a set of [stem, content]
  mapped_models,  \* stems of the inputs whose payload was written
  failed_models,  \* stems of the inputs recorded as failed
  map_result,     \* what map_directory returned
  map_log,        \* what the pass logged: [stem, event], in order
  map_rerun,      \* the input directory of a pass that is run twice, and which run this is
  map_pc,         \* "idle" | "loop" | "done"
  \* ---- BaseSeeder.seed_directory ----
  model_files,    \* list(in_dir.glob("*.json")): the files of the pass
  seed_idx,       \* files handled so far
  visited,        \* stems the loop body ran for, in order
  seeded_models,  \* entries appended to seeded_models
  failed_seeds,   \* entries appended to failed_models
  submitted,      \* records handed to requests.post
  seed_dir_result,\* what seed_directory returned
  seed_dir_pc,    \* "idle" | "loop" | "done"
  \* ---- Pipeline.run ----
  components,     \* self.components: the registered component types
  phases_run,     \* phases run_phase was called for, in order
  phase_results,  \* how each of them ended: "ok" | "fail" | "raise"
  results,        \* self.results: the phases whose result was stored
  run_result,     \* what run returned
  run_pc,         \* "idle" | "running" | "done"
  \* ---- run_pipeline.main ----
  skipped,        \* the stages whose --skip-<stage> flag is set
  continue_on_error, \* args.continue_on_error
  summary,        \* the summary dict: key -> "Success" | "Failed" | "unset"
  stage_pos,      \* number of stage blocks of main passed so far
  executed,       \* stages handed to run_component, in order
  crashed,        \* an exception left main uncaught
  exit_code,      \* the process exit code, once exited
  main_pc,        \* "start" | "stages" | "exited"
  \* ---- tag mappers ----
  tagger,         \* the mapper instance: class, auto_create_tags, next_tag_id
  heap,           \* the dict objects alive during a map_tags call, by reference
  caller_before,  \* what the caller's model_data and tag_map held at the call
  tag_result,     \* what map_tags returned
  tag_calls,      \* map_tags calls made on the instance
  \* ---- StandardModelMapper, one record ----
  mapper_in,      \* the argument of map_to_api_schema
  mapper_out,     \* what map_to_api_schema returned
  api_in,         \* the argument of validate_api_model
  validation_out, \* what validate_api_model returned
  mapper_pc,      \* "idle" | "mapped" | "validated"
  \* ---- BaseTagMapper.map_directory ----
  tag_n,          \* number of *.json files of the input directory
  tag_idx,        \* files the loop has finished with
  dir_tag_map,    \* the tag map file as loaded
  tag_out_dir,    \* the output directory: set of [stem, content]
  tagged_models,  \* stems written, in order
  failed_tag_models, \* stems that failed, in order
  tag_dir_result, \* what map_directory returned
  tag_log,        \* what the pass logged for each file, in order
  tag_inputs,     \* the contents of the files the pass has read, in order
  created_tags,   \* the "Created new tag" records of the pass, in order
  tag_prev,       \* the call before this one: its inputs and what it left
  tag_dir_pc,     \* "idle" | "loop" | "done"
  \* ---- the file names of a directory pass ----
  name_dir,       \* the names of the files of the input directory
  name_stage,     \* "enrich" | "tag" | "map"
  name_todo,      \* the files of the listing still to be processed
  name_outputs,   \* the output directory: set of [path, from]
  name_pc         \* "idle" | "loop" | "done"

seedVars == <<retries, attempt, posts, responses, seed_pc, seed_result>>
mapDirVars == <<map_n, map_idx, out_dir, mapped_models, failed_models, map_result,
                map_log, map_rerun, map_pc>>
seedDirVars == <<model_files, seed_idx, visited, seeded_models, failed_seeds,
                 submitted, seed_dir_result, seed_dir_pc>>

runVars == <<components, phases_run, phase_results, results, run_result, run_pc>>

mainVars == <<skipped, continue_on_error, summary, stage_pos, executed, crashed,
              exit_code, main_pc>>

tagVars == <<tagger, heap, caller_before, tag_result, tag_calls>>

mapperVars == <<mapper_in, mapper_out, api_in, validation_out, mapper_pc>>

tagDirVars == <<tag_n, tag_idx, dir_tag_map, tag_out_dir, tagged_models,
                failed_tag_models, tag_dir_result, tag_log, tag_inputs, created_tags,
                tag_prev, tag_dir_pc>>

nameVars == <<name_dir, name_stage, name_todo, name_outputs, name_pc>>

vars == <<seedVars, mapDirVars, seedDirVars, runVars, mainVars, tagVars, mapperVars,
          tagDirVars, nameVars>>

\* What each subsystem leaves alone.
exceptSeed ==
  <<mapDirVars, seedDirVars, runVars, mainVars, tagVars, mapperVars, tagDirVars, nameVars>>
exceptMapDir ==
  <<seedVars, seedDirVars, runVars, mainVars, tagVars, mapperVars, tagDirVars, nameVars>>
exceptSeedDir ==
  <<seedVars, mapDirVars, runVars, mainVars, tagVars, mapperVars, tagDirVars, nameVars>>
exceptRun ==
  <<seedVars, mapDirVars, seedDirVars, mainVars, tagVars, mapperVars, tagDirVars, nameVars>>
exceptMain ==
  <<seedVars, mapDirVars, seedDirVars, runVars, tagVars, mapperVars, tagDirVars, nameVars>>
exceptTags ==
  <<seedVars, mapDirVars, seedDirVars, runVars, mainVars, mapperVars, tagDirVars, nameVars>>
exceptMapper ==
  <<seedVars, mapDirVars, seedDirVars, runVars, mainVars, tagVars, tagDirVars, nameVars>>
exceptTagDir ==
  <<seedVars, mapDirVars, seedDirVars, runVars, mainVars, mapperVars,
    heap, caller_before, tag_result, tag_calls, nameVars>>

exceptNames ==
  <<seedVars, mapDirVars, seedDirVars, runVars, mainVars, tagVars, mapperVars,
    tagDirVars>>

(***************************************************************************)
(* Bounds                                                                  *)
(***************************************************************************)
MaxRetries == 3
MaxFiles == 2
\* Longest list of input tags of a model, and map_tags calls on one mapper.
MaxTags == 2
MaxCalls == 2

(***************************************************************************)
(* RestApiSeeder: the transport and the retry loop                         *)
(***************************************************************************)

\* HTTP statuses the destination may answer with: the three success codes,
\* one 2xx that is not a success code, two 4xx and two 5xx.
Statuses == {200, 201, 202, 204, 400, 404, 500, 503}

\* Response bodies: a JSON object, a JSON value that is not an object,
\* text that is not JSON, and the empty body.
BodyObject == "{\"message\": \"rejected\"}"
BodyList == "[1]"
BodyText == "oops"
BodyEmpty == ""
Bodies == {BodyObject, BodyList, BodyText, BodyEmpty}

\* requests.exceptions.RequestException subclasses raised by requests.post.
RequestExceptions == {"ConnectionError", "Timeout"}

HttpResponse(s, b) == [kind |-> "http", status |-> s, body |-> b, exc |-> ""]
RaisedException(e) == [kind |-> "exc", status |-> 0, body |-> "", exc |-> e]

TransportAnswers ==
  {HttpResponse(s, b) : s \in Statuses, b \in Bodies}
    \cup {RaisedException(e) : e \in RequestExceptions}

\* response.json(): "dict" for a JSON object, "other" for any other JSON
\* value, "invalid" when the body is not JSON (json() raises).
JsonKind(body) ==
  CASE body = BodyObject -> "dict"
    [] body = BodyList -> "other"
    [] OTHER -> "invalid"

\* A parsed or wrapped body: 'of' is the body text it was made from.
NoData == [wrapped |-> FALSE, of |-> ""]

\* Lines 281-284: the success branch keeps whatever json() returned and
\* wraps a body that is not JSON.
ResponseData(body) ==
  IF JsonKind(body) = "invalid"
    THEN [wrapped |-> TRUE, of |-> "Success (no JSON response)"]
    ELSE [wrapped |-> FALSE, of |-> body]

\* Lines 295-298: the error branch; a body that is not JSON is wrapped as
\* {"message": response.text or "Unknown error"}.
ErrorData(body) ==
  IF JsonKind(body) = "invalid"
    THEN [wrapped |-> TRUE, of |-> IF body = "" THEN "Unknown error" ELSE body]
    ELSE [wrapped |-> FALSE, of |-> body]

\* Line 300: error_data.get(...) exists only when error_data is a dict.
ErrorMessageRaises(body) == JsonKind(body) = "other"

\* Line 280.
IsSuccessStatus(status) == status \in {200, 201, 202}

\* Line 303: retry an HTTP error only with attempts left and status >= 500.
ShouldRetryStatus(att, status) == att < retries /\ status >= 500

\* Line 320: retry a request exception only with attempts left.
ShouldRetryException(att) == att < retries

Result(ok, kind, status, data, type) ==
  [success |-> ok, kind |-> kind, status_code |-> status,
   response |-> data, type |-> type]

NoResult == Result(FALSE, "none", 0, NoData, "")

SeedIdle ==
  /\ attempt = 0
  /\ posts = 0
  /\ responses = <<>>
  /\ seed_pc = "idle"
  /\ seed_result = NoResult

SeedInit == retries \in 0..MaxRetries /\ SeedIdle

\* The seeder while another subsystem runs.
SeedUnused == retries = 0 /\ SeedIdle

\* BaseSeeder.seed_model with an input validate_input rejects: model_data
\* that is not a dict, or an empty api_url. Nothing is posted.
SeedModelInvalid ==
  /\ seed_pc = "idle"
  /\ seed_pc' = "done"
  /\ seed_result' = Result(FALSE, "invalid_input", 0, NoData, "")
  /\ UNCHANGED <<retries, attempt, posts, responses, exceptSeed>>

\* BaseSeeder.seed_model with valid input: enters _seed_model_impl.
SeedModelStart ==
  /\ seed_pc = "idle"
  /\ seed_pc' = "loop"
  /\ UNCHANGED <<retries, attempt, posts, responses, seed_result, exceptSeed>>

\* One iteration of the while loop of _seed_model_impl: one POST and the
\* handling of its answer, including the except clause of seed_model that
\* catches whatever _seed_model_impl raises.
SeedAttempt(r) ==
  /\ seed_pc = "loop"
  /\ attempt < retries
  /\ attempt' = attempt + 1
  /\ posts' = posts + 1
  /\ responses' = Append(responses, r)
  /\ UNCHANGED <<retries, exceptSeed>>
  /\ IF r.kind = "exc"
       THEN IF ShouldRetryException(attempt + 1)
              THEN seed_pc' = "loop" /\ UNCHANGED seed_result
              ELSE /\ seed_pc' = "done"
                   /\ seed_result' = Result(FALSE, "request_error", 0, NoData, r.exc)
       ELSE IF IsSuccessStatus(r.status)
              THEN /\ seed_pc' = "done"
                   /\ seed_result' =
                        Result(TRUE, "ok", r.status, ResponseData(r.body), "")
              ELSE IF ErrorMessageRaises(r.body)
                     THEN /\ seed_pc' = "done"
                          /\ seed_result' =
                               Result(FALSE, "seeding_error", 0, NoData, "AttributeError")
                     ELSE IF ShouldRetryStatus(attempt + 1, r.status)
                            THEN seed_pc' = "loop" /\ UNCHANGED seed_result
                            ELSE /\ seed_pc' = "done"
                                 /\ seed_result' =
                                      Result(FALSE, "http_error", r.status,
                                             ErrorData(r.body), "")

\* The while condition fails: the fall-through return of lines 336-341.
SeedLoopExit ==
  /\ seed_pc = "loop"
  /\ ~(attempt < retries)
  /\ seed_pc' = "done"
  /\ seed_result' = Result(FALSE, "all_failed", 0, NoData, "")
  /\ UNCHANGED <<retries, attempt, posts, responses, exceptSeed>>

SeedNext ==
  \/ SeedModelInvalid
  \/ SeedModelStart
  \/ \E r \in TransportAnswers : SeedAttempt(r)
  \/ SeedLoopExit

(***************************************************************************)
(* JSON values as the Python code sees them                                *)
(***************************************************************************)

\* A value of a record's field: t is its Python type ("absent" when the key
\* is missing), s the characters of a str, n the number of an int, l the
\* items of a list.
Absent == [t |-> "absent", s |-> <<>>, n |-> 0, l |-> <<>>]
PyNone == [t |-> "none", s |-> <<>>, n |-> 0, l |-> <<>>]
PyStr(chars) == [t |-> "str", s |-> chars, n |-> 0, l |-> <<>>]
PyInt(k) == [t |-> "int", s |-> <<>>, n |-> k, l |-> <<>>]
PyList(items) == [t |-> "list", s |-> <<>>, n |-> 0, l |-> items]
PyTrue == [t |-> "bool", s |-> <<>>, n |-> 1, l |-> <<>>]

\* Python truthiness, as 'not x' and 'x and ...' use it.
Truthy(v) ==
  CASE v.t = "str" -> v.s # <<>>
    [] v.t = "list" -> v.l # <<>>
    [] v.t = "int" -> v.n # 0
    [] v.t = "bool" -> v.n # 0
    [] OTHER -> FALSE

Digits == <<"0", "1", "2", "3", "4", "5", "6", "7", "8", "9">>

\* str(x) inside an f-string, for a str, None or a one-digit int.
PyFormat(v) ==
  CASE v.t = "str" -> v.s
    [] v.t = "none" -> <<"N", "o", "n", "e">>
    [] v.t = "int" -> <<Digits[v.n + 1]>>
    [] OTHER -> <<"?">>

\* dict.get(key, default).
Get(v, default) == IF v.t = "absent" THEN default ELSE v

(***************************************************************************)
(* StandardModelMapper                                                     *)
(***************************************************************************)

\* Strings of the examples.
Str_unknown == <<"u", "n", "k", "n", "o", "w", "n">>
Str_foo_bar == <<"f", "o", "o", "-", "b", "a", "r">>
Str_m1 == <<"m", "1">>
Str_desc == <<"d", "e", "s", "c">>
Str_ref == <<"h", "t", "t", "p", ":", "/", "/", "r">>
Str_hf == <<"h", "t", "t", "p", ":", "/", "/", "h", "f">>
Str_model_dash == <<"m", "o", "d", "e", "l", "-">>
Str_Model_space == <<"M", "o", "d", "e", "l", " ">>
Str_version == <<"1", ".", "0">>

\* self.placeholder_url (line 256: "https://example.com/placeholder").
placeholder_url == <<"h", "t", "t", "p", "s", ":", "/", "/", "p", "h">>

\* The 'metadata' field: absent, a dict (whose 'huggingface' entry is absent,
\* a dict with the url given, or not a dict), or a value that is no container.
Metadata(t, hf, url) == [t |-> t, hf |-> hf, url |-> url]
NoMetadata == Metadata("absent", "absent", Absent)

\* An input model record.
ModelData(name, modelId, display_name, description, tagIds, tags, referenceLink, metadata, parameters) ==
  [name |-> name, modelId |-> modelId, display_name |-> display_name,
   description |-> description, tagIds |-> tagIds, tags |-> tags,
   referenceLink |-> referenceLink, metadata |-> metadata,
   parameters |-> parameters]

Lowers == <<"a", "b", "c", "d", "e", "f", "g", "h", "i", "j", "k", "l", "m",
            "n", "o", "p", "q", "r", "s", "t", "u", "v", "w", "x", "y", "z">>
Uppers == <<"A", "B", "C", "D", "E", "F", "G", "H", "I", "J", "K", "L", "M",
            "N", "O", "P", "Q", "R", "S", "T", "U", "V", "W", "X", "Y", "Z">>

\* str.upper() and str.lower() on one character.
UpperOf(c) ==
  IF \E i \in 1..26 : Lowers[i] = c
    THEN Uppers[CHOOSE i \in 1..26 : Lowers[i] = c] ELSE c
LowerOf(c) ==
  IF \E i \in 1..26 : Uppers[i] = c
    THEN Lowers[CHOOSE i \in 1..26 : Uppers[i] = c] ELSE c

\* str.capitalize(): first character upper-cased, the rest lower-cased.
Capitalize(w) ==
  [i \in 1..Len(w) |-> IF i = 1 THEN UpperOf(w[i]) ELSE LowerOf(w[i])]

\* name.replace('-', ' ').replace('_', ' ') (line 339).
ReplaceSeparators(chars) ==
  [i \in 1..Len(chars) |-> IF chars[i] \in {"-", "_"} THEN " " ELSE chars[i]]

\* ' '.join(word.capitalize() for word in s.split()) (line 342): split on
\* runs of blanks, capitalise each word, join with single blanks.
RECURSIVE JoinCapitalized(_, _, _)
JoinCapitalized(chars, word, out) ==
  LET flush == IF word = <<>> THEN out
               ELSE IF out = <<>> THEN Capitalize(word)
               ELSE out \o <<" ">> \o Capitalize(word)
  IN IF chars = <<>> THEN flush
     ELSE IF Head(chars) = " "
            THEN JoinCapitalized(Tail(chars), <<>>, flush)
            ELSE JoinCapitalized(Tail(chars), Append(word, Head(chars)), out)

\* StandardModelMapper._generate_display_name for a str name.
GenerateDisplayName(chars) == JoinCapitalized(ReplaceSeparators(chars), <<>>, <<>>)

\* Whether _map_to_api_schema_impl raises: _generate_display_name is called
\* on every input (the default of .get is evaluated eagerly) and needs a
\* str; 'huggingface' in metadata needs a container; .get('url') needs the
\* 'huggingface' entry to be a dict.
MapRaises(m) ==
  LET model_name == Get(m.name, PyStr(Str_unknown))
  IN \/ model_name.t # "str"
     \/ /\ ~Truthy(m.referenceLink)
        /\ \/ m.metadata.t \notin {"absent", "dict"}
           \/ m.metadata.t = "dict" /\ m.metadata.hf = "nondict"

\* Lines 290-297.
MappedTagIds(m) == IF m.tagIds.t = "list" THEN m.tagIds ELSE PyList(<<>>)

\* Lines 299-306.
MappedReferenceLink(m) ==
  IF Truthy(m.referenceLink) THEN m.referenceLink
  ELSE IF m.metadata.t = "dict" /\ m.metadata.hf = "dict"
         THEN Get(m.metadata.url, PyStr(placeholder_url))
         ELSE PyStr(placeholder_url)

\* Line 306: the warning is logged in the else branch only.
LogsPlaceholderWarning(m) ==
  ~Truthy(m.referenceLink) /\ ~(m.metadata.t = "dict" /\ m.metadata.hf = "dict")

\* Lines 308-314: a dict is dumped to its JSON text, anything else goes
\* through str().
MappedParameters(m) ==
  CASE m.parameters.t = "absent" -> Absent
    [] m.parameters.t = "dict" -> PyStr(<<"{", "}">>)
    [] OTHER -> PyStr(PyFormat(m.parameters))

\* The api_model of lines 281-319 for an input the mapper does not raise on,
\* stamped with the clock reading 'now'.
ApiModel(m, now) ==
  LET model_name == Get(m.name, PyStr(Str_unknown))
  IN [modelId |-> Get(m.modelId, PyStr(Str_model_dash \o PyFormat(model_name))),
      name |-> model_name,
      displayName |-> Get(m.display_name, PyStr(GenerateDisplayName(model_name.s))),
      description |-> Get(m.description, PyStr(Str_Model_space \o PyFormat(model_name))),
      isActive |-> PyTrue,
      version |-> PyStr(Str_version),
      tagIds |-> MappedTagIds(m),
      referenceLink |-> MappedReferenceLink(m),
      parameters |-> MappedParameters(m),
      createdAt |-> PyInt(now),
      updatedAt |-> PyInt(now)]

\* BaseModelMapper.map_to_api_schema: validate_input, then the
\* implementation inside try/except.
MapToApiSchema(isDict, m, now) ==
  IF ~isDict THEN [success |-> FALSE, error |-> "Invalid input for model mapping"]
  ELSE IF MapRaises(m) THEN [success |-> FALSE, error |-> "Model mapping error"]
  ELSE [success |-> TRUE, mapped_model |-> ApiModel(m, now)]

\* The five checks of validate_api_model, in the order the code makes them.
MissingField(v) == v.t = "absent" \/ ~Truthy(v)

\* A validation that stops at the first violated check.
FirstValidationError(a) ==
  IF MissingField(a.modelId) THEN <<"Missing required field: modelId">>
  ELSE IF MissingField(a.name) THEN <<"Missing required field: name">>
  ELSE IF MissingField(a.description) THEN <<"Missing required field: description">>
  ELSE IF a.tagIds.t # "list" THEN <<"Missing or invalid tagIds (must be a list)">>
  ELSE IF MissingField(a.referenceLink) THEN <<"Missing referenceLink">>
  ELSE <<>>

ValidationErrors(a) ==
  (IF MissingField(a.modelId) THEN <<"Missing required field: modelId">> ELSE <<>>)
  \o (IF MissingField(a.name) THEN <<"Missing required field: name">> ELSE <<>>)
  \o (IF MissingField(a.description)
        THEN <<"Missing required field: description">> ELSE <<>>)
  \o (IF a.tagIds.t # "list"
        THEN <<"Missing or invalid tagIds (must be a list)">> ELSE <<>>)
  \o (IF MissingField(a.referenceLink) THEN <<"Missing referenceLink">> ELSE <<>>)

\* BaseModelMapper.validate_api_model.
ValidateApiModel(a) ==
  [valid |-> Len(ValidationErrors(a)) = 0, errors |-> ValidationErrors(a)]

(***************************************************************************)
(* Files and directories                                                   *)
(***************************************************************************)

\* A *.json file: malformed text, or the JSON text of a value that is a
\* dict (doc holds it) or not.
Malformed(doc) == [kind |-> "malformed", isDict |-> FALSE, doc |-> doc]
JsonNonDict(doc) == [kind |-> "json", isDict |-> FALSE, doc |-> doc]

\* json.dump of a dict (BaseModelWriter.write_model).
JsonDump(doc) == [kind |-> "json", isDict |-> TRUE, doc |-> doc]

\* BaseModelReader.read_model: json.load raises on malformed text.
ReadRaises(content) == content.kind = "malformed"
JsonLoad(content) == content.doc

\* A writer that does not replace a file that is there but writes beside it.
WriteBeside(dir, stem, content) ==
  IF \E f \in dir : f.stem = stem
    THEN dir \cup {[stem |-> stem + 100, content |-> content]}
    ELSE dir \cup {[stem |-> stem, content |-> content]}

\* The path f"{stem}_api_payload.json" in the output directory holds content.
WriteModel(dir, stem, content) ==
  {f \in dir : f.stem # stem} \cup {[stem |-> stem, content |-> content]}

\* The record {} and the record with every field missing.
EmptyModelData ==
  ModelData(Absent, Absent, Absent, Absent, Absent, Absent, Absent, NoMetadata, Absent)
EmptyApiModel ==
  [modelId |-> Absent, name |-> Absent, displayName |-> Absent,
   description |-> Absent, isActive |-> Absent, version |-> Absent,
   tagIds |-> Absent, referenceLink |-> Absent, parameters |-> Absent,
   createdAt |-> Absent, updatedAt |-> Absent]

\* Input records of a mapping pass.
DirModels ==
  {ModelData(name, modelId, Absent, description, tagIds, Absent,
             referenceLink, metadata, Absent) :
     name \in {Absent, PyStr(<<>>), PyStr(Str_foo_bar), PyNone},
     modelId \in {Absent, PyStr(<<>>)},
     description \in {Absent, PyStr(<<>>)},
     tagIds \in {Absent, PyStr(<<"9">>)},
     referenceLink \in {Absent, PyStr(Str_ref)},
     metadata \in {NoMetadata, Metadata("dict", "dict", PyStr(<<>>))}}

\* Files of the mapper's input directory.
InputFiles ==
  {JsonDump(m) : m \in DirModels}
    \cup {Malformed(EmptyModelData), JsonNonDict(EmptyModelData)}

\* datetime.now() readings.
Clock == {1, 2}

\* Input records of a single mapping call: every field missing, empty,
\* well-formed or of another type.
MapperInputs ==
  {ModelData(name, modelId, display_name, description, tagIds, tags,
             referenceLink, metadata, parameters) :
     name \in {Absent, PyStr(<<>>), PyStr(Str_foo_bar), PyNone},
     modelId \in {Absent, PyStr(<<>>), PyStr(Str_m1)},
     display_name \in {Absent, PyStr(Str_m1)},
     description \in {Absent, PyStr(<<>>), PyStr(Str_desc)},
     tagIds \in {Absent, PyList(<<PyInt(9)>>), PyStr(<<"9">>)},
     tags \in {Absent, PyList(<<PyStr(<<"x">>)>>)},
     referenceLink \in {Absent, PyStr(<<>>), PyStr(Str_ref)},
     metadata \in {NoMetadata, Metadata("dict", "absent", Absent),
                   Metadata("dict", "dict", Absent), Metadata("dict", "dict", PyStr(<<>>)),
                   Metadata("dict", "dict", PyStr(Str_hf)),
                   Metadata("dict", "nondict", Absent), Metadata("other", "absent", Absent)},
     parameters \in {Absent, PyInt(7)}}

\* Arguments of validate_api_model: dicts with each checked field missing,
\* empty or wrong-typed, or well-formed.
ApiModels ==
  {[EmptyApiModel EXCEPT !.modelId = modelId, !.name = name, !.description = description,
                         !.tagIds = tagIds, !.referenceLink = referenceLink] :
     modelId \in {Absent, PyStr(<<>>), PyStr(Str_m1)},
     name \in {Absent, PyNone, PyStr(Str_foo_bar)},
     description \in {Absent, PyStr(<<>>), PyStr(Str_desc)},
     tagIds \in {Absent, PyList(<<>>), PyStr(<<"9">>)},
     referenceLink \in {Absent, PyStr(<<>>), PyStr(Str_ref)}}

NoMapOutput == [success |-> FALSE, error |-> ""]
NoValidation == [valid |-> FALSE, errors |-> <<>>]

MapperIdle ==
  /\ mapper_in = [isDict |-> FALSE, m |-> EmptyModelData]
  /\ mapper_out = NoMapOutput
  /\ api_in = EmptyApiModel
  /\ validation_out = NoValidation
  /\ mapper_pc = "idle"

\* map_to_api_schema(model_data) with a dict.
MapModelCall(m, now) ==
  /\ mapper_pc = "idle"
  /\ mapper_in' = [isDict |-> TRUE, m |-> m]
  /\ mapper_out' = MapToApiSchema(TRUE, m, now)
  /\ mapper_pc' = "mapped"
  /\ UNCHANGED <<api_in, validation_out, exceptMapper>>

\* map_to_api_schema with a value that is not a dict.
MapNonDictCall ==
  /\ mapper_pc = "idle"
  /\ mapper_in' = [isDict |-> FALSE, m |-> EmptyModelData]
  /\ mapper_out' = MapToApiSchema(FALSE, EmptyModelData, 1)
  /\ mapper_pc' = "mapped"
  /\ UNCHANGED <<api_in, validation_out, exceptMapper>>

\* validate_api_model on the record just mapped, as map_directory calls it
\* (lines 176-177).
ValidateMappedCall ==
  /\ mapper_pc = "mapped"
  /\ mapper_out.success
  /\ api_in' = mapper_out.mapped_model
  /\ validation_out' = ValidateApiModel(mapper_out.mapped_model)
  /\ mapper_pc' = "validated"
  /\ UNCHANGED <<mapper_in, mapper_out, exceptMapper>>

\* validate_api_model on any dict.
ValidateApiModelCall(a) ==
  /\ mapper_pc = "idle"
  /\ api_in' = a
  /\ validation_out' = ValidateApiModel(a)
  /\ mapper_pc' = "validated"
  /\ UNCHANGED <<mapper_in, mapper_out, exceptMapper>>

(***************************************************************************)
(* BaseModelMapper.map_directory                                           *)
(***************************************************************************)

\* No directory is followed over two runs.
NoRerun == [in_files |-> <<>>, now |-> 1, first |-> "none"]

MapDirIdle ==
  /\ map_n = 0
  /\ map_idx = 0
  /\ out_dir = {}
  /\ mapped_models = <<>>
  /\ failed_models = <<>>
  /\ map_result = [returned |-> FALSE, success |-> FALSE, error |-> ""]
  /\ map_log = <<>>
  /\ map_rerun = NoRerun
  /\ map_pc = "idle"

\* A map_directory that writes every mapped record, valid or not.
WritesForwardUnchecked(validation) == TRUE

\* Lines 179-183: a record is written forward only when its validation
\* returned valid.
WritesForward(validation) == validation["valid"]

\* An aggregate that reports success whatever failed.
MapDirSuccessAlways(failed) == Len(failed) >= 0

\* Line 199.
MapDirSuccess(failed) == Len(failed) = 0

Logged(stem, event) == [stem |-> stem, event |-> event]

\* map_directory up to the loop: the input directory is missing (lines
\* 139-143), holds no *.json file (151-156), or holds n of them.
MapDirectoryStart(exists, n) ==
  /\ map_pc = "idle"
  /\ seed_dir_pc = "idle"
  /\ map_n' = n
  /\ IF ~exists
       THEN /\ map_pc' = "done"
            /\ map_result' = [returned |-> TRUE, success |-> FALSE,
                              error |-> "Input directory not found"]
       ELSE IF n = 0
              THEN /\ map_pc' = "done"
                   /\ map_result' = [returned |-> TRUE, success |-> TRUE, error |-> ""]
              ELSE /\ map_pc' = "loop"
                   /\ UNCHANGED map_result
  /\ UNCHANGED <<map_idx, out_dir, mapped_models, failed_models, map_log, map_rerun,
                 exceptMapDir>>

\* One iteration of the loop of lines 162-194 for the next input file, whose
\* content is c, at clock reading now: read, map, validate, write.
MapFile(c, now) ==
  /\ map_pc = "loop"
  /\ map_idx < map_n
  /\ map_idx' = map_idx + 1
  /\ LET stem == map_idx + 1
         result == MapToApiSchema(c.isDict, JsonLoad(c), now)
     IN IF ReadRaises(c)
          THEN /\ failed_models' = Append(failed_models, stem)
               /\ map_log' = Append(map_log, Logged(stem, "Error processing"))
               /\ UNCHANGED <<out_dir, mapped_models>>
          ELSE IF ~result.success
          THEN /\ failed_models' = Append(failed_models, stem)
               /\ map_log' = Append(map_log, Logged(stem, "Failed to map"))
               /\ UNCHANGED <<out_dir, mapped_models>>
          ELSE IF ~WritesForward(ValidateApiModel(result.mapped_model))
                 THEN /\ failed_models' = Append(failed_models, stem)
                      /\ map_log' = Append(map_log, Logged(stem, "Validation failed"))
                      /\ UNCHANGED <<out_dir, mapped_models>>
                 ELSE /\ out_dir' = WriteModel(out_dir, stem, JsonDump(result.mapped_model))
                      /\ mapped_models' = Append(mapped_models, stem)
                      /\ map_log' = Append(map_log, Logged(stem, "Mapped"))
                      /\ UNCHANGED failed_models
  /\ UNCHANGED <<map_n, map_result, map_pc, map_rerun, exceptMapDir>>

\* Lines 196-206: the aggregate result.
MapDirectoryReturn ==
  /\ map_pc = "loop"
  /\ map_idx = map_n
  /\ map_pc' = "done"
  /\ map_result' = [returned |-> TRUE, success |-> MapDirSuccess(failed_models),
                    error |-> ""]
  /\ UNCHANGED <<map_n, map_idx, out_dir, mapped_models, failed_models, map_log,
                 map_rerun, exceptMapDir>>

\* map_directory is called a second time, after the first call returned or
\* after the process was stopped inside the loop: the per-call locals
\* (lines 158-160) start empty again; the output directory keeps its files.
MapDirectoryRerun ==
  /\ map_pc \in {"loop", "done"}
  /\ seed_dir_pc = "idle"
  /\ map_rerun.first = "none"
  /\ map_rerun' = [map_rerun EXCEPT !.first = IF map_pc = "done" THEN "complete"
                                              ELSE "interrupted"]
  /\ map_n' = 0
  /\ map_idx' = 0
  /\ mapped_models' = <<>>
  /\ failed_models' = <<>>
  /\ map_result' = [returned |-> FALSE, success |-> FALSE, error |-> ""]
  /\ map_log' = <<>>
  /\ map_pc' = "idle"
  /\ UNCHANGED <<out_dir, exceptMapDir>>

(***************************************************************************)
(* BaseSeeder.seed_directory                                               *)
(***************************************************************************)

SeedDirIdle ==
  /\ model_files = <<>>
  /\ seed_idx = 0
  /\ visited = <<>>
  /\ seeded_models = <<>>
  /\ failed_seeds = <<>>
  /\ submitted = <<>>
  /\ seed_dir_result = [returned |-> FALSE, success |-> FALSE, error |-> ""]
  /\ seed_dir_pc = "idle"

\* in_dir.glob("*.json") as a list: the files of dir, each once.
RECURSIVE Listing(_)
Listing(dir) ==
  IF dir = {} THEN <<>>
  ELSE LET f == CHOOSE g \in dir : \A h \in dir : g.stem <= h.stem
       IN <<f>> \o Listing(dir \ {f})

\* What seed_model can return for a dict and a non-empty api_url: the kinds
\* of result of RestApiSeeder ("all_failed" only with a budget of 0, when
\* nothing is posted).
SeedModelKinds == {"ok", "http_error", "request_error", "seeding_error", "all_failed"}

\* An aggregate that is true whatever failed.
SeedDirSuccessAlways(failed) == Len(failed) >= 0

\* Line 168.
SeedDirSuccess(failed) == Len(failed) = 0

\* seed_directory up to the loop (lines 110-130), over the directory the
\* mapper wrote.
SeedDirectoryStart(exists) ==
  /\ seed_dir_pc = "idle"
  /\ map_pc \in {"idle", "done"}
  /\ IF ~exists
       THEN /\ seed_dir_pc' = "done"
            /\ seed_dir_result' = [returned |-> TRUE, success |-> FALSE,
                                   error |-> "Input directory not found"]
            /\ UNCHANGED model_files
       ELSE /\ model_files' = Listing(out_dir)
            /\ IF out_dir = {}
                 THEN /\ seed_dir_pc' = "done"
                      /\ seed_dir_result' =
                           [returned |-> TRUE, success |-> TRUE, error |-> ""]
                 ELSE /\ seed_dir_pc' = "loop"
                      /\ UNCHANGED seed_dir_result
  /\ UNCHANGED <<seed_idx, visited, seeded_models, failed_seeds, submitted,
                 exceptSeedDir>>

\* One iteration of the loop of lines 132-163: read the file, call
\* seed_model (which answers with a result of the given kind when its input
\* is a dict), record the outcome. For a JSON value that is not a dict
\* seed_model returns its invalid-input failure and model_data.get (line
\* 152) raises into the except clause of line 158.
SeedFile(kind) ==
  /\ seed_dir_pc = "loop"
  /\ seed_idx < Len(model_files)
  /\ seed_idx' = seed_idx + 1
  /\ LET f == model_files[seed_idx + 1]
         model_data == JsonLoad(f.content)
     IN /\ visited' = Append(visited, f.stem)
        /\ IF ReadRaises(f.content)
             THEN /\ failed_seeds' = Append(failed_seeds,
                                            [file |-> f.stem, error |-> "read_error"])
                  /\ UNCHANGED <<seeded_models, submitted>>
             ELSE IF ~f.content.isDict
                    THEN /\ failed_seeds' = Append(failed_seeds,
                                                   [file |-> f.stem, error |-> "AttributeError"])
                         /\ UNCHANGED <<seeded_models, submitted>>
                    ELSE /\ submitted' = IF kind = "all_failed" THEN submitted
                                         ELSE Append(submitted, model_data)
                         /\ IF kind = "ok"
                              THEN /\ seeded_models' = Append(seeded_models,
                                                              [file |-> f.stem])
                                   /\ UNCHANGED failed_seeds
                              ELSE /\ failed_seeds' = Append(failed_seeds,
                                                             [file |-> f.stem, error |-> kind])
                                   /\ UNCHANGED seeded_models
  /\ UNCHANGED <<model_files, seed_dir_result, seed_dir_pc, exceptSeedDir>>

\* Lines 165-175: the aggregate result.
SeedDirectoryReturn ==
  /\ seed_dir_pc = "loop"
  /\ seed_idx = Len(model_files)
  /\ seed_dir_pc' = "done"
  /\ seed_dir_result' = [returned |-> TRUE, success |-> SeedDirSuccess(failed_seeds),
                         error |-> ""]
  /\ UNCHANGED <<model_files, seed_idx, visited, seeded_models, failed_seeds,
                 submitted, exceptSeedDir>>

\* Files a seeding pass may find in a directory that anything may have
\* written: malformed text, a JSON list, the dict {} and a mapped payload.
AnyFiles ==
  {Malformed(EmptyApiModel), JsonNonDict(EmptyApiModel), JsonDump(EmptyApiModel),
   JsonDump(ApiModel(ModelData(PyStr(Str_foo_bar), Absent, Absent, Absent, Absent,
                               Absent, Absent, NoMetadata, Absent), 1))}

\* The directories of at most MaxFiles files, file i having stem i.
AnyDirectories ==
  UNION {{{[stem |-> i, content |-> c[i]] : i \in 1..n} : c \in [1..n -> AnyFiles]}
           : n \in 0..MaxFiles}

(***************************************************************************)
(* Pipeline.run                                                            *)
(***************************************************************************)

\* The phases in the order run calls run_phase for them (lines 105-158).
Phases == <<"extract", "enrich", "map_tags", "map_models", "seed", "archive">>

\* phase_map of run_phase (lines 190-197): the component type of a phase.
ComponentOf(phase) ==
  CASE phase = "extract" -> "extractor"
    [] phase = "enrich" -> "enricher"
    [] phase = "map_tags" -> "tag_mapper"
    [] phase = "map_models" -> "model_mapper"
    [] phase = "seed" -> "seeder"
    [] phase = "archive" -> "archiver"

\* required_components (line 92).
RequiredComponents == {ComponentOf(Phases[i]) : i \in 1..Len(Phases)}

\* How a component's directory method can end: it returns success=true, it
\* returns success=false, or it raises.
ComponentOutcomes == {"ok", "fail", "raise"}

RunIdle ==
  /\ components = {}
  /\ phases_run = <<>>
  /\ phase_results = <<>>
  /\ results = {}
  /\ run_result = [returned |-> FALSE, success |-> FALSE]
  /\ run_pc = "idle"

\* run_phase (lines 218-235): the component's result, or a success=false
\* result when the component raised.
RunPhaseSuccess(outcome) == outcome = "ok"

\* A run that goes on whatever the phase returned.
PhaseFailedNever(success) == FALSE

\* Lines 110, 119, 129, 138, 148, 157: 'if not result["success"]'.
PhaseFailed(success) == ~success

\* run up to the first phase (lines 88-101).
RunStart ==
  /\ run_pc = "idle"
  /\ IF RequiredComponents \subseteq components
       THEN run_pc' = "running" /\ UNCHANGED run_result
       ELSE /\ run_pc' = "done"
            /\ run_result' = [returned |-> TRUE, success |-> FALSE]
  /\ UNCHANGED <<components, phases_run, phase_results, results, exceptRun>>

\* The next phase of run: run_phase, the test of its result, and the return
\* that follows a failed phase or the last phase.
RunPhase(outcome) ==
  /\ run_pc = "running"
  /\ Len(phases_run) < Len(Phases)
  /\ LET phase == Phases[Len(phases_run) + 1]
         last == Len(phases_run) + 1 = Len(Phases)
     IN /\ phases_run' = Append(phases_run, phase)
        /\ phase_results' = Append(phase_results, outcome)
        /\ results' = IF outcome = "raise" THEN results ELSE results \cup {phase}
        /\ IF PhaseFailed(RunPhaseSuccess(outcome))
             THEN /\ run_pc' = "done"
                  /\ run_result' = [returned |-> TRUE, success |-> FALSE]
             ELSE IF last
                    THEN /\ run_pc' = "done"
                         /\ run_result' = [returned |-> TRUE, success |-> TRUE]
                    ELSE run_pc' = "running" /\ UNCHANGED run_result
  /\ UNCHANGED <<components, exceptRun>>

(***************************************************************************)
(* run_pipeline.main                                                       *)
(***************************************************************************)

\* The stage blocks of main in order, by the key each writes in summary.
Stages == <<"extract", "enrich", "tag_map", "model_map", "seed", "archive">>
StageSet == {Stages[i] : i \in 1..Len(Stages)}

SummaryKeys == StageSet \cup {"overall"}

\* summary.get(key, "Failed").
SummaryGet(sm, key) == IF sm[key] = "unset" THEN "Failed" ELSE sm[key]

\* The guard of a stage block (lines 285, 312, 335, 358, 381, 403): its skip
\* flag is not set and, from the second block on, the stage before it is
\* recorded as "Success".
StageGuard(i, sm) ==
  /\ Stages[i] \notin skipped
  /\ i > 1 => SummaryGet(sm, Stages[i - 1]) = "Success"

\* Lines 305, 328, 351, 374, 396: a failed stage exits at once unless
\* --continue-on-error is set; the archive block (415-418) has no exit.
ExitsOnFailure(i) == i < Len(Stages) /\ ~continue_on_error

\* Lines 430-431: exit 1 when summary.get("overall", "Failed") is "Failed";
\* otherwise main returns and the exit code is 0.
FinalExitCode(sm) == IF SummaryGet(sm, "overall") = "Failed" THEN 1 ELSE 0

MainIdle ==
  /\ skipped = {}
  /\ continue_on_error = FALSE
  /\ summary = [k \in SummaryKeys |-> "unset"]
  /\ stage_pos = 0
  /\ executed = <<>>
  /\ crashed = FALSE
  /\ exit_code = -1
  /\ main_pc = "start"

\* Lines 268-282: the factory assembles the pipeline; an unknown component
\* type raises out of main.
MainStart(created) ==
  /\ main_pc = "start"
  /\ IF created
       THEN main_pc' = "stages" /\ UNCHANGED <<crashed, exit_code>>
       ELSE main_pc' = "exited" /\ crashed' = TRUE /\ exit_code' = 1
  /\ UNCHANGED <<skipped, continue_on_error, summary, stage_pos, executed, exceptMain>>

\* The next stage block of main: its guard, the creation of its component
\* (which raises out of main for an unknown type), run_component (whose
\* method returns or raises) and the bookkeeping of the outcome.
MainStage(created, raises) ==
  /\ main_pc = "stages"
  /\ stage_pos < Len(Stages)
  /\ stage_pos' = stage_pos + 1
  /\ LET i == stage_pos + 1
     IN IF ~StageGuard(i, summary)
          THEN UNCHANGED <<summary, executed, crashed, exit_code, main_pc>>
          ELSE IF ~created
                 THEN /\ main_pc' = "exited"
                      /\ crashed' = TRUE
                      /\ exit_code' = 1
                      /\ UNCHANGED <<summary, executed>>
                 ELSE /\ executed' = Append(executed, Stages[i])
                      /\ UNCHANGED crashed
                      /\ IF raises
                           THEN /\ summary' = [summary EXCEPT ![Stages[i]] = "Failed",
                                                              !["overall"] = "Failed"]
                                /\ IF ExitsOnFailure(i)
                                     THEN main_pc' = "exited" /\ exit_code' = 1
                                     ELSE UNCHANGED <<main_pc, exit_code>>
                           ELSE /\ summary' = [summary EXCEPT ![Stages[i]] = "Success"]
                                /\ UNCHANGED <<main_pc, exit_code>>
  /\ UNCHANGED <<skipped, continue_on_error, exceptMain>>

\* Lines 423-431: the summary is printed and the process exits.
MainExit ==
  /\ main_pc = "stages"
  /\ stage_pos = Len(Stages)
  /\ main_pc' = "exited"
  /\ exit_code' = FinalExitCode(summary)
  /\ UNCHANGED <<skipped, continue_on_error, summary, stage_pos, executed, crashed,
                 exceptMain>>

(***************************************************************************)
(* SimpleTagMapper and FallbackTagMapper                                   *)
(***************************************************************************)

\* A dict of tag names to ids is a sequence of entries in insertion order.
Entry(k, v) == [k |-> k, v |-> v]
HasKey(d, k) == \E i \in 1..Len(d) : d[i].k = k
Lookup(d, k) == d[CHOOSE i \in 1..Len(d) : d[i].k = k].v
Put(d, k, v) ==
  IF HasKey(d, k)
    THEN [i \in 1..Len(d) |-> IF d[i].k = k THEN Entry(k, v) ELSE d[i]]
    ELSE Append(d, Entry(k, v))

\* 'a in b' on two strings.
IsSubstring(a, b) ==
  \E i \in 0..(Len(b) - Len(a)) : SubSeq(b, i + 1, i + Len(a)) = a

StrLower(w) == [i \in 1..Len(w) |-> LowerOf(w[i])]

\* Iterating 'tags' raises TypeError unless it is a list or a str.
IterRaises(tags) == tags.t \notin {"list", "str"}

\* len(tags) of the tags the loop iterates over.
InputTagsLen(tags) ==
  CASE tags.t = "list" -> Len(tags.l)
    [] tags.t = "str" -> Len(tags.s)
    [] OTHER -> 0

\* [str(tag).lower() for tag in tags]; a str iterates by character.
NormalizedTags(tags) ==
  IF tags.t = "list"
    THEN [i \in 1..Len(tags.l) |-> StrLower(PyFormat(tags.l[i]))]
    ELSE [i \in 1..Len(tags.s) |-> <<LowerOf(tags.s[i])>>]

\* The entries of the working map, in iteration order, that the substring
\* test of line 381 accepts for the tag.
SubstringMatches(tag, d) ==
  LET hit(e) == IsSubstring(tag, e.k) \/ IsSubstring(e.k, tag)
  IN SelectSeq(d, hit)

\* A scan without the 'break': every entry accepted is taken.
AllMatches(matches) == matches

\* A scan in which the last entry accepted wins.
LastMatch(matches) == IF matches = <<>> THEN <<>> ELSE <<matches[Len(matches)]>>

\* The 'break' of line 385: the loop stops at the first entry accepted.
FirstMatch(matches) == IF matches = <<>> THEN <<>> ELSE <<matches[1]>>

\* str(id).isdigit() and int(id), for ASCII digits.
IsDigitStr(w) == w # <<>> /\ \A i \in 1..Len(w) : \E j \in 1..10 : Digits[j] = w[i]
DigitOf(c) == (CHOOSE j \in 1..10 : Digits[j] = c) - 1
RECURSIVE ParseInt(_)
ParseInt(w) ==
  IF w = <<>> THEN 0
  ELSE 10 * ParseInt(SubSeq(w, 1, Len(w) - 1)) + DigitOf(w[Len(w)])

\* Line 364: isinstance(id, (int, str)) and str(id).isdigit().
IsNumericId(v) == (v.t = "int" /\ v.n >= 0) \/ (v.t = "str" /\ IsDigitStr(v.s))
IntOf(v) == IF v.t = "int" THEN v.n ELSE ParseInt(v.s)
ExistingIds(d) == {IntOf(d[i].v) : i \in {j \in 1..Len(d) : IsNumericId(d[j].v)}}
\* The smallest of the ids instead of the largest.
Min(S) == CHOOSE x \in S : \A y \in S : x <= y
Max(S) == CHOOSE x \in S : \A y \in S : y <= x

\* A counter that is never re-seeded from the tag map.
KeepNextTagId(auto, next, d) == next

\* Lines 363-366: the counter is re-seeded only when auto-create is on and
\* the tag map holds a numeric id.
SeededNextTagId(auto, next, d) ==
  IF auto /\ ExistingIds(d) # {} THEN Max(ExistingIds(d)) + 1 ELSE next

\* Lines 372-401, one iteration per normalized tag.
RECURSIVE FallbackResolve(_, _, _, _, _, _)
FallbackResolve(tags, wmap, next, auto, ids, unmapped) ==
  IF tags = <<>>
    THEN [tag_ids |-> ids, working_tag_map |-> wmap, next_tag_id |-> next,
          unmapped_tags |-> unmapped]
    ELSE LET tag == Head(tags)
             found == FirstMatch(SubstringMatches(tag, wmap))
         IN IF HasKey(wmap, tag)
              THEN FallbackResolve(Tail(tags), wmap, next, auto,
                                   Append(ids, Lookup(wmap, tag)), unmapped)
            ELSE IF found # <<>>
              THEN FallbackResolve(Tail(tags), wmap, next, auto,
                                   ids \o [i \in 1..Len(found) |-> found[i].v], unmapped)
            ELSE IF auto
              THEN FallbackResolve(Tail(tags), Put(wmap, tag, PyInt(next)), next + 1,
                                   auto, Append(ids, PyInt(next)), unmapped)
            ELSE FallbackResolve(Tail(tags), wmap, next, auto, ids,
                                 Append(unmapped, tag))

\* A strict lookup that also accepts a substring match.
SimpleResolveLoose(tags, d) ==
  LET r == FallbackResolve(tags, d, 0, FALSE, <<>>, <<>>)
  IN [tag_ids |-> r.tag_ids, unmapped_tags |-> r.unmapped_tags]

\* Lines 285-289.
SimpleResolve(tags, d) ==
  LET present(t) == HasKey(d, t)
      missing(t) == ~HasKey(d, t)
      kept == SelectSeq(tags, present)
  IN [tag_ids |-> [i \in 1..Len(kept) |-> Lookup(d, kept[i])],
      unmapped_tags |-> SelectSeq(tags, missing)]

\* The dict objects of a call, by reference: the two the caller passes in
\* and the two the mapper may allocate.
EmptyHeap ==
  [model_data |-> EmptyModelData, tag_map |-> <<>>,
   tagged_model |-> EmptyModelData, working_tag_map |-> <<>>]

\* An assignment without .copy(): the same object under a second name.
AliasTarget(src, fresh) == src

\* dict.copy() returns a new object.
CopyTarget(src, fresh) == fresh

\* x = h[src].copy(): the reference x receives, and the heap afterwards. The
\* copy is shallow; the values it shares with the original are only read.
DictCopy(h, src, fresh) ==
  [ref |-> CopyTarget(src, fresh),
   heap |-> [h EXCEPT ![CopyTarget(src, fresh)] = h[src]]]

\* A mapper that leaves tagIds as the input had it.
KeepTagIds(h, ref, ids) == h

\* tagged_model['tagIds'] = ids, through the reference.
SetTagIds(h, ref, ids) == [h EXCEPT ![ref].tagIds = PyList(ids)]

NoTagResult ==
  [returned |-> FALSE, success |-> FALSE, tagged_model |-> "none",
   error |-> "", unmapped_tags |-> <<>>]
TagSuccess(ref, unmapped) ==
  [returned |-> TRUE, success |-> TRUE, tagged_model |-> ref,
   error |-> "", unmapped_tags |-> unmapped]
TagFailure(type) ==
  [returned |-> TRUE, success |-> FALSE, tagged_model |-> "none",
   error |-> type, unmapped_tags |-> <<>>]

\* SimpleTagMapper._map_tags_impl on the heap h, with the caller's objects
\* at "model_data" and "tag_map".
SimpleMapTagsImpl(h, self) ==
  LET c == DictCopy(h, "model_data", "tagged_model")
      tags == Get(c.heap[c.ref].tags, PyList(<<>>))
      r == SimpleResolve(NormalizedTags(tags), c.heap["tag_map"])
  IN IF ~Truthy(tags)
       THEN [heap |-> SetTagIds(c.heap, c.ref, <<>>), self |-> self,
             result |-> TagSuccess(c.ref, <<>>)]
     ELSE IF IterRaises(tags)
       THEN [heap |-> c.heap, self |-> self, result |-> TagFailure("TypeError")]
     ELSE [heap |-> SetTagIds(c.heap, c.ref, r.tag_ids), self |-> self,
           result |-> TagSuccess(c.ref, r.unmapped_tags)]

\* FallbackTagMapper._map_tags_impl.
FallbackMapTagsImpl(h, self) ==
  LET c == DictCopy(h, "model_data", "tagged_model")
      tags == Get(c.heap[c.ref].tags, PyList(<<>>))
      w == DictCopy(c.heap, "tag_map", "working_tag_map")
      seeded == SeededNextTagId(self.auto_create_tags, self.next_tag_id, w.heap["tag_map"])
      r == FallbackResolve(NormalizedTags(tags), w.heap[w.ref], seeded,
                           self.auto_create_tags, <<>>, <<>>)
  IN IF ~Truthy(tags)
       THEN [heap |-> SetTagIds(c.heap, c.ref, <<>>), self |-> self,
             result |-> TagSuccess(c.ref, <<>>)]
     ELSE IF IterRaises(tags)
       THEN [heap |-> c.heap, self |-> self, result |-> TagFailure("TypeError")]
     ELSE [heap |-> SetTagIds([w.heap EXCEPT ![w.ref] = r.working_tag_map],
                              c.ref, r.tag_ids),
           self |-> [self EXCEPT !.next_tag_id = r.next_tag_id],
           result |-> TagSuccess(c.ref, r.unmapped_tags)]

\* The mapper instances: SimpleTagMapper() has no counter; FallbackTagMapper
\* starts its counter at 1000 (line 325).
SimpleTagger == [class |-> "simple", auto_create_tags |-> FALSE, next_tag_id |-> 0]
FallbackTagger(auto) ==
  [class |-> "fallback", auto_create_tags |-> auto, next_tag_id |-> 1000]
Taggers == {SimpleTagger} \cup {FallbackTagger(auto) : auto \in BOOLEAN}

\* A model record as far as the tag mappers read it.
TaggedInput(name, tags, tagIds) ==
  ModelData(name, Absent, Absent, Absent, tagIds, tags, Absent, NoMetadata, Absent)

\* Input tags: strings in either case, and a value that is no string.
TagPool == {PyStr(<<"A">>), PyStr(<<"Z", "z">>), PyInt(1)}
TagLists == UNION {[1..n -> TagPool] : n \in 0..MaxTags}
TagsValues == {PyList(l) : l \in TagLists} \cup {Absent, PyStr(<<"a", "B">>), PyInt(1)}
TagModels == {TaggedInput(PyStr(Str_m1), tags, Absent) : tags \in TagsValues}

\* Tag maps: empty, one int id, two keys that both contain "a" (one id a
\* digit string) beside a key with a null id, and one with no numeric id (a
\* text id and a null id).
TagMaps ==
  { <<>>,
    <<Entry(<<"a">>, PyInt(1))>>,
    <<Entry(<<"a", "b", "c">>, PyStr(<<"7">>)), Entry(<<"c", "a">>, PyInt(2)),
      Entry(<<"k">>, PyNone)>>,
    <<Entry(<<"x", "a">>, PyStr(<<"t">>)), Entry(<<"1">>, PyNone)>> }

\* Tags and tag maps of the documented examples: a tag map with one int
\* id, one whose key contains a tag, one where a tag is a key and is also
\* contained in an earlier key, and the empty one.
Str_zzz == <<"z", "z", "z">>
Str_zzz2 == <<"z", "z", "z", "2">>
Str_mistral == <<"m", "i", "s", "t", "r", "a", "l">>
Str_mistral_family == Str_mistral \o <<" ", "f", "a", "m", "i", "l", "y">>
ExampleTags ==
  {PyStr(<<"a">>), PyStr(<<"z", "z">>), PyStr(Str_zzz), PyStr(Str_zzz2), PyStr(Str_mistral)}
ExampleTagLists ==
  UNION {[1..n -> ExampleTags] : n \in 0..MaxTags}
    \cup {<<PyStr(<<"a">>), PyStr(Str_zzz), PyStr(Str_zzz2)>>}
ExampleModels == {TaggedInput(PyStr(Str_m1), PyList(l), Absent) : l \in ExampleTagLists}
ExampleTagMaps ==
  { <<Entry(<<"a">>, PyInt(1))>>,
    <<Entry(Str_mistral_family, PyInt(7))>>,
    <<Entry(Str_zzz2, PyInt(5)), Entry(Str_zzz, PyInt(6))>>,
    <<>> }

TagsIdle ==
  /\ tagger = SimpleTagger
  /\ heap = EmptyHeap
  /\ caller_before = [model_data |-> EmptyModelData, tag_map |-> <<>>]
  /\ tag_result = NoTagResult
  /\ tag_calls = 0

\* BaseTagMapper.map_tags(model_data, tag_map) with two dicts.
MapTags(m, tm) ==
  /\ tag_calls < MaxCalls
  /\ tag_calls' = tag_calls + 1
  /\ caller_before' = [model_data |-> m, tag_map |-> tm]
  /\ LET h == [EmptyHeap EXCEPT !["model_data"] = m, !["tag_map"] = tm]
         out == IF tagger.class = "simple"
                  THEN SimpleMapTagsImpl(h, tagger)
                  ELSE FallbackMapTagsImpl(h, tagger)
     IN /\ heap' = out.heap
        /\ tagger' = out.self
        /\ tag_result' = out.result
  /\ UNCHANGED exceptTags

\* The first map_tags call on a new mapper instance.
MapTagsFirst(m, tm) == tag_calls = 0 /\ MapTags(m, tm)

\* map_tags with an argument that is not a dict: validate_input refuses
\* (lines 52-56) and nothing is read or allocated.
MapTagsInvalid ==
  /\ tag_calls < MaxCalls
  /\ tag_calls' = tag_calls + 1
  /\ caller_before' = [model_data |-> EmptyModelData, tag_map |-> <<>>]
  /\ heap' = EmptyHeap
  /\ tag_result' = TagFailure("Invalid input")
  /\ UNCHANGED <<tagger, exceptTags>>

(***************************************************************************)
(* BaseTagMapper.map_directory                                             *)
(***************************************************************************)

\* The tag map file: missing, malformed JSON, a JSON array, or the JSON of a
\* tag map.
TagMapMissing == [kind |-> "missing", isDict |-> FALSE, doc |-> <<>>]
TagMapMalformed == [kind |-> "malformed", isDict |-> FALSE, doc |-> <<>>]
TagMapNonDict == [kind |-> "json", isDict |-> FALSE, doc |-> <<>>]
TagMapJson(d) == [kind |-> "json", isDict |-> TRUE, doc |-> d]
TagMapFiles ==
  {TagMapMissing, TagMapMalformed, TagMapNonDict} \cup {TagMapJson(d) : d \in TagMaps}

\* Files of the tag mapper's input directory.
TagDirModels ==
  {TaggedInput(PyStr(Str_m1), tags, Absent) :
     tags \in {Absent, PyList(<<PyStr(<<"A">>)>>), PyList(<<PyStr(<<"Z", "z">>)>>),
               PyList(<<PyStr(<<"Z", "z">>), PyStr(<<"q">>)>>),
               PyList(<<PyStr(<<"q">>)>>), PyInt(1)}}
TagDirFiles ==
  {JsonDump(m) : m \in TagDirModels}
    \cup {Malformed(EmptyModelData), JsonNonDict(EmptyModelData)}

NoTagDirResult == [returned |-> FALSE, success |-> FALSE, error |-> ""]

NoPreviousPass ==
  [ran |-> FALSE, complete |-> FALSE, exists |-> FALSE, n |-> 0, inputs |-> <<>>,
   tag_map |-> TagMapMissing, out_dir |-> {}, result |-> NoTagDirResult]

TagDirIdle ==
  /\ tag_n = 0
  /\ tag_idx = 0
  /\ dir_tag_map = TagMapMissing
  /\ tag_out_dir = {}
  /\ tagged_models = <<>>
  /\ failed_tag_models = <<>>
  /\ tag_dir_result = NoTagDirResult
  /\ tag_log = <<>>
  /\ tag_inputs = <<>>
  /\ created_tags = <<>>
  /\ tag_prev = NoPreviousPass
  /\ tag_dir_pc = "idle"

\* An aggregate that reports success whatever failed.
TagDirSuccessAlways(failed) == Len(failed) >= 0

\* The tags a map_tags call created (lines 391-399): the entries its working
\* tag map holds after those of the tag map.
CreatedTags(stem, tm, wm) ==
  [i \in 1..(Len(wm) - Len(tm)) |->
     [stem |-> stem, tag |-> wm[Len(tm) + i].k, id |-> wm[Len(tm) + i].v]]

\* Line 178.
TagDirSuccess(failed) == Len(failed) = 0

\* map_directory up to the loop: the input directory is missing (lines
\* 109-113), the tag map file is missing (119-123) or cannot be loaded
\* (126-134), the directory holds no *.json file (139-144), or holds n.
TagDirectoryStart(exists, tmf, n) ==
  /\ tag_dir_pc = "idle"
  /\ tag_n' = n
  /\ dir_tag_map' = tmf
  /\ IF ~exists
       THEN /\ tag_dir_pc' = "done"
            /\ tag_dir_result' = [returned |-> TRUE, success |-> FALSE,
                                  error |-> "Input directory not found"]
     ELSE IF tmf.kind = "missing"
       THEN /\ tag_dir_pc' = "done"
            /\ tag_dir_result' = [returned |-> TRUE, success |-> FALSE,
                                  error |-> "Tag map file not found"]
     ELSE IF tmf.kind = "malformed"
       THEN /\ tag_dir_pc' = "done"
            /\ tag_dir_result' = [returned |-> TRUE, success |-> FALSE,
                                  error |-> "Error loading tag map"]
     ELSE IF n = 0
       THEN /\ tag_dir_pc' = "done"
            /\ tag_dir_result' = [returned |-> TRUE, success |-> TRUE, error |-> ""]
     ELSE /\ tag_dir_pc' = "loop"
          /\ UNCHANGED tag_dir_result
  /\ UNCHANGED <<tag_idx, tag_out_dir, tagged_models, failed_tag_models, tag_log,
                 tag_inputs, created_tags, tag_prev, tagger, exceptTagDir>>

\* One iteration of the loop of lines 150-173 for the next input file, whose
\* content is c: read, map_tags with the loaded tag map, write.
TagFile(c) ==
  /\ tag_dir_pc = "loop"
  /\ tag_idx < tag_n
  /\ tag_idx' = tag_idx + 1
  /\ tag_inputs' = Append(tag_inputs, c)
  /\ LET stem == tag_idx + 1
         h == [EmptyHeap EXCEPT !["model_data"] = JsonLoad(c),
                                !["tag_map"] = dir_tag_map.doc]
         out == IF tagger.class = "simple"
                  THEN SimpleMapTagsImpl(h, tagger)
                  ELSE FallbackMapTagsImpl(h, tagger)
     IN IF ReadRaises(c) \/ ~c.isDict \/ ~dir_tag_map.isDict
          THEN /\ failed_tag_models' = Append(failed_tag_models, stem)
               /\ tag_log' = Append(tag_log, Logged(stem,
                                IF ReadRaises(c) THEN "Error processing"
                                ELSE "Failed to map tags"))
               /\ UNCHANGED <<tag_out_dir, tagged_models, tagger, created_tags>>
        ELSE IF ~out.result.success
          THEN /\ failed_tag_models' = Append(failed_tag_models, stem)
               /\ tag_log' = Append(tag_log, Logged(stem, "Failed to map tags"))
               /\ tagger' = out.self
               /\ UNCHANGED <<tag_out_dir, tagged_models, created_tags>>
        ELSE /\ tag_out_dir' = WriteModel(tag_out_dir, stem,
                                          JsonDump(out.heap[out.result.tagged_model]))
             /\ tagged_models' = Append(tagged_models, stem)
             /\ tag_log' = Append(tag_log, Logged(stem, "Tagged"))
             /\ created_tags' = created_tags
                  \o CreatedTags(stem, dir_tag_map.doc, out.heap["working_tag_map"])
             /\ tagger' = out.self
             /\ UNCHANGED failed_tag_models
  /\ UNCHANGED <<tag_n, dir_tag_map, tag_dir_result, tag_dir_pc, tag_prev,
                 exceptTagDir>>

\* Lines 175-185: the aggregate result.
TagDirectoryReturn ==
  /\ tag_dir_pc = "loop"
  /\ tag_idx = tag_n
  /\ tag_dir_pc' = "done"
  /\ tag_dir_result' = [returned |-> TRUE, success |-> TagDirSuccess(failed_tag_models),
                        error |-> ""]
  /\ UNCHANGED <<tag_n, tag_idx, dir_tag_map, tag_out_dir, tagged_models,
                 failed_tag_models, tag_log, tag_inputs, created_tags, tag_prev,
                 tagger, exceptTagDir>>

\* What a pass leaves for the next one: the files it read and the output
\* directory as it stands.
PassRecord(complete) ==
  [ran |-> TRUE, complete |-> complete,
   exists |-> tag_dir_result.error # "Input directory not found",
   n |-> tag_n, inputs |-> tag_inputs, tag_map |-> dir_tag_map,
   out_dir |-> tag_out_dir, result |-> tag_dir_result]

\* A second call of map_directory after a first one: the per-call locals
\* (lines 147-148) start empty again; the output directory keeps its files.
NewPass(complete) ==
  /\ ~tag_prev.ran
  /\ tag_prev' = PassRecord(complete)
  /\ tag_n' = 0
  /\ tag_idx' = 0
  /\ dir_tag_map' = TagMapMissing
  /\ tagged_models' = <<>>
  /\ failed_tag_models' = <<>>
  /\ tag_dir_result' = NoTagDirResult
  /\ tag_log' = <<>>
  /\ tag_inputs' = <<>>
  /\ created_tags' = <<>>
  /\ tag_dir_pc' = "idle"
  /\ UNCHANGED <<tag_out_dir, exceptTagDir>>

\* map_directory has returned and is called again on the same mapper
\* instance: self.next_tag_id is what the call before left.
TagDirectoryAgain ==
  /\ tag_dir_pc = "done"
  /\ NewPass(TRUE)
  /\ UNCHANGED tagger

\* The process was stopped inside the loop and the stage is run again: the
\* mapper is constructed anew (line 325).
TagDirectoryRestart ==
  /\ tag_dir_pc = "loop"
  /\ NewPass(FALSE)
  /\ tagger' = IF tagger.class = "simple" THEN SimpleTagger
                ELSE FallbackTagger(tagger.auto_create_tags)

(***************************************************************************)
(* Output file names of the directory passes                               *)
(*   enricher.py 118-149, tag_mapper.py 136-167, model_mapper.py 148-188   *)
(* A file name is the sequence of its characters.                          *)
(***************************************************************************)

Ext_json == <<".", "j", "s", "o", "n">>

\* The names an input directory may hold.
NamePool ==
  { Ext_json,
    Ext_json \o Ext_json,
    <<"a">> \o Ext_json,
    <<"b">> \o Ext_json,
    <<"a", ".", "b">> \o Ext_json,
    <<"a", ".">> \o Ext_json,
    <<"a">> \o Ext_json \o Ext_json,
    <<"a", ".", "t", "x", "t">>,
    <<"j", "s", "o", "n">> }

\* The suffix each pass puts after the stem.
StageSuffixes ==
  [enrich |-> <<"_enriched">>, tag |-> <<"_tagged">>, map |-> <<"_api_payload">>]

\* glob("*.json"): the name ends in ".json"; the star matches the empty
\* string and a leading dot as well.
MatchesGlob(name) ==
  /\ Len(name) >= Len(Ext_json)
  /\ SubSeq(name, Len(name) - Len(Ext_json) + 1, Len(name)) = Ext_json

\* str.rfind('.') + 1: the position of the last dot, 0 when there is none.
LastDot(name) ==
  LET dots == {i \in 1..Len(name) : name[i] = "."}
  IN  IF dots = {} THEN 0 ELSE CHOOSE i \in dots : \A j \in dots : j <= i

\* Path.stem: the name without its last suffix; a name whose only dot is the
\* first or the last character has no suffix.
Stem(name) ==
  LET i == LastDot(name)
  IN  IF 1 < i /\ i < Len(name) THEN SubSeq(name, 1, i - 1) ELSE name

\* output_dir / f"{model_file.stem}<suffix>.json"
OutputName(name, suffix) == Stem(name) \o suffix \o Ext_json

NamesIdle ==
  /\ name_dir = {}
  /\ name_stage = "none"
  /\ name_todo = {}
  /\ name_outputs = {}
  /\ name_pc = "idle"

\* list(in_dir.glob("*.json"))
ListDirectory ==
  /\ name_pc = "idle"
  /\ name_todo' = {n \in name_dir : MatchesGlob(n)}
  /\ name_pc' = "loop"
  /\ UNCHANGED <<name_dir, name_stage, name_outputs, exceptNames>>

\* One iteration of the loop on a file that passes: the output file is
\* opened for writing, so a file of that name is replaced.
WriteOutputFile(n) ==
  /\ name_pc = "loop"
  /\ n \in name_todo
  /\ LET path == OutputName(n, StageSuffixes[name_stage])
     IN  name_outputs' = {o \in name_outputs : o.path # path}
                           \cup {[path |-> path, from |-> n]}
  /\ name_todo' = name_todo \ {n}
  /\ UNCHANGED <<name_dir, name_stage, name_pc, exceptNames>>

\* The loop is over and the pass returns.
NamesReturn ==
  /\ name_pc = "loop"
  /\ name_todo = {}
  /\ name_pc' = "done"
  /\ UNCHANGED <<name_dir, name_stage, name_todo, name_outputs, exceptNames>>

(***************************************************************************)
(* Specifications                                                          *)
(***************************************************************************)

\* One call of RestApiSeeder.seed_model.
SeedModelInit == SeedInit /\ MapDirIdle /\ SeedDirIdle /\ RunIdle /\ MainIdle /\ TagsIdle /\ MapperIdle /\ TagDirIdle /\ NamesIdle

SpecSeed == SeedModelInit /\ [][SeedNext]_vars

\* One seed_directory pass over an arbitrary directory.
SeedDirInit ==
  /\ SeedUnused
  /\ SeedDirIdle
  /\ map_n = 0 /\ map_idx = 0 /\ mapped_models = <<>> /\ failed_models = <<>>
  /\ map_result = [returned |-> FALSE, success |-> FALSE, error |-> ""]
  /\ map_log = <<>>
  /\ map_rerun = NoRerun
  /\ map_pc = "idle"
  /\ out_dir \in AnyDirectories
  /\ RunIdle /\ MainIdle /\ TagsIdle /\ MapperIdle /\ TagDirIdle /\ NamesIdle

SeedDirNext ==
  \/ \E exists \in BOOLEAN : SeedDirectoryStart(exists)
  \/ \E kind \in SeedModelKinds : SeedFile(kind)
  \/ SeedDirectoryReturn

SpecSeedDir == SeedDirInit /\ [][SeedDirNext]_vars

\* A map_directory pass into an empty mapped directory, then a
\* seed_directory pass over what it wrote.
PipeDirInit == SeedUnused /\ MapDirIdle /\ SeedDirIdle /\ RunIdle /\ MainIdle /\ TagsIdle /\ MapperIdle /\ TagDirIdle /\ NamesIdle

PipeDirNext ==
  \/ \E exists \in BOOLEAN, n \in 0..MaxFiles : MapDirectoryStart(exists, n)
  \/ \E c \in InputFiles, now \in Clock : MapFile(c, now)
  \/ MapDirectoryReturn
  \/ \E exists \in BOOLEAN : SeedDirectoryStart(exists)
  \/ \E kind \in SeedModelKinds : SeedFile(kind)
  \/ SeedDirectoryReturn

SpecMapSeed == PipeDirInit /\ [][PipeDirNext]_vars

\* One call of Pipeline.run on a pipeline with any set of components
\* registered.
RunInit ==
  /\ SeedUnused /\ MapDirIdle /\ SeedDirIdle /\ MainIdle /\ TagsIdle /\ MapperIdle /\ TagDirIdle /\ NamesIdle
  /\ components \in SUBSET RequiredComponents
  /\ phases_run = <<>>
  /\ phase_results = <<>>
  /\ results = {}
  /\ run_result = [returned |-> FALSE, success |-> FALSE]
  /\ run_pc = "idle"

RunNext ==
  \/ RunStart
  \/ \E outcome \in ComponentOutcomes : RunPhase(outcome)

SpecRun == RunInit /\ [][RunNext]_vars

\* One run of the command line entry point, with any flags.
MainInit ==
  /\ SeedUnused /\ MapDirIdle /\ SeedDirIdle /\ RunIdle /\ TagsIdle /\ MapperIdle /\ TagDirIdle /\ NamesIdle
  /\ skipped \in SUBSET StageSet
  /\ continue_on_error \in BOOLEAN
  /\ summary = [k \in SummaryKeys |-> "unset"]
  /\ stage_pos = 0
  /\ executed = <<>>
  /\ crashed = FALSE
  /\ exit_code = -1
  /\ main_pc = "start"

MainNext ==
  \/ \E created \in BOOLEAN : MainStart(created)
  \/ \E created \in BOOLEAN, raises \in BOOLEAN : MainStage(created, raises)
  \/ MainExit

SpecMain == MainInit /\ [][MainNext]_vars

\* map_tags calls on one mapper instance of either class.
TagsInit ==
  /\ SeedUnused /\ MapDirIdle /\ SeedDirIdle /\ RunIdle /\ MainIdle /\ MapperIdle /\ TagDirIdle /\ NamesIdle
  /\ tagger \in Taggers
  /\ heap = EmptyHeap
  /\ caller_before = [model_data |-> EmptyModelData, tag_map |-> <<>>]
  /\ tag_result = NoTagResult
  /\ tag_calls = 0

TagsNext ==
  \/ \E m \in TagModels, tm \in TagMaps : MapTags(m, tm)
  \/ MapTagsInvalid

SpecTags == TagsInit /\ [][TagsNext]_vars

\* One directory pass of one of the three components: a tag mapper of
\* either class, the model mapper, or the seeder over a directory that
\* anything may have written.
DirPassInit ==
  /\ SeedUnused /\ SeedDirIdle /\ RunIdle /\ MainIdle /\ MapperIdle /\ TagDirIdle /\ NamesIdle
  /\ map_n = 0 /\ map_idx = 0 /\ mapped_models = <<>> /\ failed_models = <<>>
  /\ map_result = [returned |-> FALSE, success |-> FALSE, error |-> ""]
  /\ map_log = <<>>
  /\ map_rerun = NoRerun
  /\ map_pc = "idle"
  /\ out_dir \in AnyDirectories
  /\ tagger \in Taggers
  /\ heap = EmptyHeap
  /\ caller_before = [model_data |-> EmptyModelData, tag_map |-> <<>>]
  /\ tag_result = NoTagResult
  /\ tag_calls = 0

NoPassStarted == tag_dir_pc = "idle" /\ map_pc = "idle" /\ seed_dir_pc = "idle"

DirPassNext ==
  \/ /\ NoPassStarted /\ out_dir = {}
     /\ \E exists \in BOOLEAN, tmf \in TagMapFiles, n \in 0..MaxFiles :
          TagDirectoryStart(exists, tmf, n)
  \/ /\ tag_dir_pc = "loop"
     /\ \E c \in TagDirFiles : TagFile(c)
  \/ TagDirectoryReturn
  \/ /\ NoPassStarted /\ out_dir = {}
     /\ \E exists \in BOOLEAN, n \in 0..MaxFiles : MapDirectoryStart(exists, n)
  \/ /\ map_pc = "loop"
     /\ \E c \in InputFiles, now \in Clock : MapFile(c, now)
  \/ MapDirectoryReturn
  \/ /\ NoPassStarted
     /\ \E exists \in BOOLEAN : SeedDirectoryStart(exists)
  \/ \E kind \in SeedModelKinds : SeedFile(kind)
  \/ SeedDirectoryReturn

SpecDirPasses == DirPassInit /\ [][DirPassNext]_vars

\* A tag mapping pass and a second one over the unchanged input directory
\* and tag map file, by a tag mapper of either class: the second pass finds
\* the files and the tag map file the first one found.
TagPassesInit ==
  /\ SeedUnused /\ MapDirIdle /\ SeedDirIdle /\ RunIdle /\ MainIdle /\ MapperIdle
  /\ TagDirIdle /\ NamesIdle
  /\ tagger \in Taggers
  /\ heap = EmptyHeap
  /\ caller_before = [model_data |-> EmptyModelData, tag_map |-> <<>>]
  /\ tag_result = NoTagResult
  /\ tag_calls = 0

SameDirectory(exists, tmf, n) ==
  tag_prev.ran => exists = tag_prev.exists /\ tmf = tag_prev.tag_map /\ n = tag_prev.n

SameFile(c) ==
  (tag_prev.ran /\ tag_idx < Len(tag_prev.inputs)) => c = tag_prev.inputs[tag_idx + 1]

TagPassesNext ==
  \/ /\ tag_dir_pc = "idle"
     /\ \E exists \in BOOLEAN, tmf \in TagMapFiles, n \in 0..MaxFiles :
          SameDirectory(exists, tmf, n) /\ TagDirectoryStart(exists, tmf, n)
  \/ /\ tag_dir_pc = "loop"
     /\ \E c \in TagDirFiles : SameFile(c) /\ TagFile(c)
  \/ TagDirectoryReturn
  \/ TagDirectoryAgain
  \/ TagDirectoryRestart

SpecTagPasses == TagPassesInit /\ [][TagPassesNext]_vars

\* Files of an input directory that is mapped twice: a record that maps and
\* validates, one that fails validation, one that cannot be mapped, malformed
\* text and a JSON list.
RerunFiles ==
  {JsonDump(ModelData(PyStr(Str_foo_bar), Absent, Absent, Absent,
                      PyList(<<PyInt(9)>>), Absent, Absent, NoMetadata, Absent)),
   JsonDump(ModelData(PyStr(Str_foo_bar), Absent, Absent, PyStr(<<>>),
                      Absent, Absent, Absent, NoMetadata, Absent)),
   JsonDump(ModelData(PyNone, Absent, Absent, Absent,
                      Absent, Absent, Absent, NoMetadata, Absent)),
   Malformed(EmptyModelData), JsonNonDict(EmptyModelData)}

RerunDirectories ==
  UNION {[1..n -> RerunFiles] : n \in 0..MaxFiles}

\* A directory pass of the strict tag mapper or of the model mapper with a
\* frozen clock, and a second run of the same pass over the unchanged input
\* directory, after the first run returned or was stopped inside its loop.
RerunInit ==
  /\ SeedUnused /\ SeedDirIdle /\ RunIdle /\ MainIdle /\ MapperIdle /\ TagDirIdle /\ NamesIdle
  /\ TagsIdle
  /\ map_n = 0 /\ map_idx = 0 /\ mapped_models = <<>> /\ failed_models = <<>>
  /\ map_result = [returned |-> FALSE, success |-> FALSE, error |-> ""]
  /\ map_log = <<>>
  /\ map_pc = "idle"
  /\ out_dir = {}
  /\ map_rerun \in [in_files : RerunDirectories, now : Clock, first : {"none"}]

RerunNext ==
  \/ /\ tag_dir_pc = "idle" /\ map_pc = "idle" /\ map_rerun = NoRerun
     /\ \E exists \in BOOLEAN, tmf \in TagMapFiles, n \in 0..MaxFiles :
          SameDirectory(exists, tmf, n) /\ TagDirectoryStart(exists, tmf, n)
  \/ /\ tag_dir_pc = "loop"
     /\ \E c \in TagDirFiles : SameFile(c) /\ TagFile(c)
  \/ TagDirectoryReturn
  \/ TagDirectoryAgain
  \/ TagDirectoryRestart
  \/ /\ tag_dir_pc = "idle" /\ ~tag_prev.ran
     /\ MapDirectoryStart(TRUE, Len(map_rerun.in_files))
  \/ /\ map_pc = "loop" /\ map_idx < map_n
     /\ MapFile(map_rerun.in_files[map_idx + 1], map_rerun.now)
  \/ MapDirectoryReturn
  \/ MapDirectoryRerun

SpecReruns == RerunInit /\ [][RerunNext]_vars

\* One record through the model mapper: map_to_api_schema, then
\* validate_api_model; or validate_api_model on any dict.
MapperInit ==
  /\ SeedUnused /\ MapDirIdle /\ SeedDirIdle /\ RunIdle /\ MainIdle /\ TagsIdle
  /\ MapperIdle /\ TagDirIdle /\ NamesIdle

MapperNext ==
  \/ mapper_pc = "idle" /\ \E m \in MapperInputs, now \in Clock : MapModelCall(m, now)
  \/ MapNonDictCall
  \/ ValidateMappedCall
  \/ mapper_pc = "idle" /\ \E a \in ApiModels : ValidateApiModelCall(a)

SpecMapper == MapperInit /\ [][MapperNext]_vars

\* One map_tags call on a new mapper, over the documented examples.
TagExamplesNext == \E m \in ExampleModels, tm \in ExampleTagMaps : MapTagsFirst(m, tm)

SpecTagExamples == TagsInit /\ [][TagExamplesNext]_vars

\* One directory pass of one stage over a directory of named files.
NamesInit ==
  /\ SeedUnused /\ MapDirIdle /\ SeedDirIdle /\ RunIdle /\ MainIdle /\ TagsIdle
  /\ MapperIdle /\ TagDirIdle
  /\ name_dir \in {d \in SUBSET NamePool : Cardinality(d) <= MaxFiles}
  /\ name_stage \in DOMAIN StageSuffixes
  /\ name_todo = {}
  /\ name_outputs = {}
  /\ name_pc = "idle"

NamesNext ==
  \/ ListDirectory
  \/ \E n \in name_todo : WriteOutputFile(n)
  \/ NamesReturn

SpecNames == NamesInit /\ [][NamesNext]_vars


(***************************************************************************)
(* Claims about seed_model                                                 *)
(***************************************************************************)

\* A transient failure: a request exception (connection error, timeout) or
\* an HTTP 5xx answer.
IsTransient(r) ==
  \/ r.kind = "exc"
  \/ r.kind = "http" /\ r.status >= 500 /\ r.status <= 599

\* An answer that is neither a success code nor a 5xx.
IsTerminalStatus(r) ==
  r.kind = "http" /\ ~IsSuccessStatus(r.status) /\ ~(r.status >= 500 /\ r.status <= 599)

\* The result carries the error of answer r: its status code and body for an
\* HTTP answer, its exception type for a request exception.
CarriesErrorOf(res, r) ==
  IF r.kind = "exc"
    THEN res.kind = "request_error" /\ res.type = r.exc
    ELSE /\ res.kind = "http_error"
         /\ res.status_code = r.status
         /\ r.body # "" => res.response.of = r.body

\* C1: with a budget N >= 1, an attempt answered by a status that is neither
\* 200/201/202 nor 5xx is the last POST, and seed_model returns
\* success=false carrying that status code and that response body.
C1_TerminalStatusReturned ==
  \A i \in 1..Len(responses) :
    (retries >= 1 /\ IsTerminalStatus(responses[i])) =>
      /\ i = Len(responses)
      /\ posts = i
      /\ seed_pc = "done"
      /\ seed_result.success = FALSE
      /\ CarriesErrorOf(seed_result, responses[i])

\* C2: when the first k < N attempts fail transiently the seeder goes on to
\* attempt k+1 (it has not returned while budget remains), and when that
\* attempt is answered 200, 201 or 202 seed_model returns success=true after
\* exactly k+1 POSTs.
C2_RetryThenSuccess ==
  /\ (/\ seed_pc = "done"
      /\ responses # <<>>
      /\ \A i \in 1..Len(responses) : IsTransient(responses[i]))
       => Len(responses) = retries
  /\ \A k \in 0..(retries - 1) :
       (/\ Len(responses) = k + 1
        /\ \A i \in 1..k : IsTransient(responses[i])
        /\ responses[k + 1].kind = "http"
        /\ IsSuccessStatus(responses[k + 1].status))
         => /\ seed_pc = "done"
            /\ seed_result.success = TRUE
            /\ posts = k + 1

\* C3: seed_model never issues more than N POSTs, and when all N >= 1
\* attempts failed transiently it returns success=false with the error of
\* the N-th attempt.
C3_BudgetAndLastError ==
  /\ posts <= retries
  /\ (/\ retries >= 1
      /\ seed_pc = "done"
      /\ Len(responses) = retries
      /\ \A i \in 1..retries : IsTransient(responses[i]))
       => /\ seed_result.success = FALSE
          /\ CarriesErrorOf(seed_result, responses[retries])

(***************************************************************************)
(* Claims about the directory passes                                       *)
(***************************************************************************)

\* Number of entries of list about the file with the given stem.
RECURSIVE EntriesFor(_, _)
EntriesFor(list, stem) ==
  IF list = <<>> THEN 0
  ELSE (IF Head(list).file = stem THEN 1 ELSE 0) + EntriesFor(Tail(list), stem)

\* C4: when seed_directory returns from a pass over the n files of a
\* directory, the loop body ran for every file, each file has exactly one
\* entry in seeded_models and failed_models together, and the aggregate
\* success is true exactly when failed_models is empty.
C4_SeedDirectoryAggregate ==
  (seed_dir_pc = "done" /\ seed_dir_result.error = "") =>
    /\ model_files = Listing(out_dir)
    /\ visited = [i \in 1..Len(model_files) |-> model_files[i].stem]
    /\ \A f \in out_dir :
         EntriesFor(seeded_models, f.stem) + EntriesFor(failed_seeds, f.stem) = 1
    /\ Len(seeded_models) + Len(failed_seeds) = Cardinality(out_dir)
    /\ seed_dir_result.success <=> (failed_seeds = <<>>)

\* C4 witness: the pass returned with a file seeded after an earlier file
\* had failed.
C4_Witness ==
  /\ seed_dir_pc = "done"
  /\ \E i, j \in 1..Len(visited) :
       /\ i < j
       /\ EntriesFor(failed_seeds, visited[i]) = 1
       /\ EntriesFor(seeded_models, visited[j]) = 1

\* The five checks of the mapper's validation, stated on a record: modelId,
\* name and description non-empty, tagIds a list, referenceLink non-empty.
PassesValidation(a) ==
  /\ a.modelId.t # "absent" /\ Truthy(a.modelId)
  /\ a.name.t # "absent" /\ Truthy(a.name)
  /\ a.description.t # "absent" /\ Truthy(a.description)
  /\ a.tagIds.t = "list"
  /\ a.referenceLink.t # "absent" /\ Truthy(a.referenceLink)

\* C8: with the mapped directory written only by map_directory, every file
\* in it and every record seed_directory submits passes the validation.
C8_OnlyValidatedRecordsSeeded ==
  /\ \A f \in out_dir :
       /\ f.content.kind = "json"
       /\ f.content.isDict
       /\ PassesValidation(f.content.doc)
  /\ \A i \in 1..Len(submitted) : PassesValidation(submitted[i])

\* C8 witness: a pass in which one record failed validation and was held
\* back, and another was written and then submitted by seed_directory.
C8_Witness ==
  /\ \E i \in 1..Len(map_log) : map_log[i].event = "Validation failed"
  /\ Len(submitted) >= 1
  /\ seed_dir_pc = "done"

(***************************************************************************)
(* Claims about Pipeline.run                                               *)
(***************************************************************************)

\* C5: the phases run in the order extract, enrich, map_tags, map_models,
\* seed, archive; a phase is run only after every earlier phase returned
\* success=true; a phase that returns success=false is the last one run and
\* run returns success=false; run returns success=true exactly when all six
\* phases returned success=true.
C5_PhasesInOrderHaltOnFailure ==
  /\ Len(phases_run) <= 6
  /\ phases_run = SubSeq(<<"extract", "enrich", "map_tags", "map_models", "seed",
                           "archive">>, 1, Len(phases_run))
  /\ Len(phase_results) = Len(phases_run)
  /\ \A i \in 1..Len(phases_run) : \A j \in 1..(i - 1) : phase_results[j] = "ok"
  /\ \A i \in 1..Len(phase_results) :
       phase_results[i] # "ok" =>
         /\ i = Len(phases_run)
         /\ run_pc = "done"
         /\ run_result.success = FALSE
  /\ run_pc = "done" =>
       (run_result.success = TRUE <=>
          (Len(phase_results) = 6 /\ \A i \in 1..Len(Stages) : phase_results[i] = "ok"))

\* C5 witness: run returned success=false after map_models, the fourth
\* phase, returned success=false; seed and archive were not run.
C5_Witness ==
  /\ run_pc = "done"
  /\ phases_run = <<"extract", "enrich", "map_tags", "map_models">>
  /\ phase_results = <<"ok", "ok", "ok", "fail">>
  /\ run_result.success = FALSE

(***************************************************************************)
(* Claims about run_pipeline.main                                          *)
(***************************************************************************)

\* Some stage of the run failed, or the run died on an exception.
SomeStageFailed == crashed \/ \E k \in StageSet : summary[k] = "Failed"

\* C6: the process exits with code 0 when every stage it ran completed
\* without failure, and with code 1 exactly when some stage failed.
C6_ExitCodeReflectsFailure ==
  main_pc = "exited" =>
    /\ ~SomeStageFailed => exit_code = 0
    /\ exit_code = 1 <=> SomeStageFailed

\* C7: with --continue-on-error set, after a stage failed the stages after
\* it that are not skipped are still executed, and the process exits 1.
C7_ContinueOnErrorRunsLaterStages ==
  \A i \in 1..Len(Stages) :
    (/\ main_pc = "exited"
     /\ continue_on_error
     /\ ~crashed
     /\ summary[Stages[i]] = "Failed")
      => /\ exit_code = 1
         /\ \A j \in (i + 1)..Len(Stages) :
              Stages[j] \notin skipped => \E e \in 1..Len(executed) : executed[e] = Stages[j]

(***************************************************************************)
(* Claims about the tag mappers                                            *)
(***************************************************************************)

\* C9: after map_tags returns, the caller's model_data and tag_map hold
\* exactly the keys and values they held before the call, for both mapper
\* classes, also when an identifier was minted during the call.
C9_CallerObjectsUnchanged ==
  tag_result.returned =>
    /\ heap["model_data"] = caller_before.model_data
    /\ heap["tag_map"] = caller_before.tag_map

\* A fallback call with auto-create that minted an identifier: the working
\* map gained a key and the tagged model gained tagIds.
C9_Witness ==
  /\ tag_result.returned /\ tag_result.success
  /\ tagger.class = "fallback" /\ tagger.auto_create_tags
  /\ Len(heap["working_tag_map"]) > Len(caller_before.tag_map)
  /\ heap["tagged_model"].tagIds # caller_before.model_data.tagIds
  /\ caller_before.tag_map # <<>>

\* C10: the tagIds a successful map_tags produces is never longer than the
\* input tags, under both mapper classes, auto-create on or off.
C10_TagIdsNoLongerThanTags ==
  (tag_result.returned /\ tag_result.success) =>
    Len(heap[tag_result.tagged_model].tagIds.l)
      <= InputTagsLen(caller_before.model_data.tags)

\* A fallback call in which a tag matched two entries of the tag map by
\* substring and one tag more was resolved.
C10_Witness ==
  /\ tag_result.returned /\ tag_result.success
  /\ tagger.class = "fallback"
  /\ caller_before.model_data.tags.t = "list"
  /\ \E i \in 1..Len(caller_before.model_data.tags.l) :
       Len(SubstringMatches(NormalizedTags(caller_before.model_data.tags)[i],
                            caller_before.tag_map)) > 1
  /\ Len(heap["tagged_model"].tagIds.l) = Len(caller_before.model_data.tags.l)
  /\ Len(caller_before.model_data.tags.l) > 1

\* The positions of the normalized tags that are keys of the tag map.
PresentAt(norm, d) == {i \in 1..Len(norm) : HasKey(d, norm[i])}

\* C11: under the strict mapper, tagIds is the sequence of tag_map values of
\* the input tags whose lower-cased form is a key of the tag map, in input
\* order; a tag with no verbatim match contributes nothing, and when every
\* tag is a key the count of tags is preserved.
C11_StrictResolution ==
  (tag_result.returned /\ tag_result.success /\ tagger.class = "simple"
     /\ Truthy(caller_before.model_data.tags)) =>
    LET norm == NormalizedTags(caller_before.model_data.tags)
        d == caller_before.tag_map
        ids == heap[tag_result.tagged_model].tagIds.l
        present == PresentAt(norm, d)
    IN /\ Len(ids) = Cardinality(present)
       /\ \A i \in present :
            ids[Cardinality({j \in present : j <= i})] = Lookup(d, norm[i])
       /\ present = 1..Len(norm) => Len(ids) = Len(norm)

\* A strict call with one tag that is a key and one tag that is not a key
\* but is contained in a key.
C11_Witness ==
  /\ tag_result.returned /\ tag_result.success /\ tagger.class = "simple"
  /\ caller_before.model_data.tags.t = "list"
  /\ LET norm == NormalizedTags(caller_before.model_data.tags)
         d == caller_before.tag_map
     IN /\ \E i \in 1..Len(norm) : HasKey(d, norm[i])
        /\ \E i \in 1..Len(norm) :
             ~HasKey(d, norm[i]) /\ SubstringMatches(norm[i], d) # <<>>
        /\ Len(heap["tagged_model"].tagIds.l) = 1

(***************************************************************************)
(* Claims about the fallback strategies                                    *)
(***************************************************************************)

\* A returned call of the auto-creating fallback mapper on the given tag map
\* and list of tags.
AutoCreateCallOn(d, tags) ==
  /\ tag_result.returned /\ tag_result.success
  /\ tagger.class = "fallback" /\ tagger.auto_create_tags
  /\ caller_before.tag_map = d
  /\ caller_before.model_data.tags = PyList(tags)

ProducedTagIds == heap["tagged_model"].tagIds.l
MapA1 == <<Entry(<<"a">>, PyInt(1))>>
TagsAZzz == <<PyStr(<<"a">>), PyStr(Str_zzz)>>
TagsAZzzZzz2 == <<PyStr(<<"a">>), PyStr(Str_zzz), PyStr(Str_zzz2)>>

\* C12 as stated: tag map {"a": 1} and tags ["a", "zzz"] with auto-create
\* give tagIds [1, 1000] and "zzz": 1000 in the working map; a further tag
\* "zzz2" in the same pass gets 1001.
C12_AutoCreateExampleAsStated ==
  /\ AutoCreateCallOn(MapA1, TagsAZzz) =>
       /\ ProducedTagIds = <<PyInt(1), PyInt(1000)>>
       /\ HasKey(heap["working_tag_map"], Str_zzz)
       /\ Lookup(heap["working_tag_map"], Str_zzz) = PyInt(1000)
  /\ AutoCreateCallOn(MapA1, TagsAZzzZzz2) =>
       ProducedTagIds = <<PyInt(1), PyInt(1000), PyInt(1001)>>

\* C12 amended: the counter is seeded from the largest numeric id of the
\* tag map plus one, so tag map {"a": 1} and tags ["a", "zzz"] give tagIds
\* [1, 2] and "zzz": 2 in the working map; a further tag "zzz2" contains the
\* new key "zzz" and resolves to 2 without minting. With the empty tag map
\* the first id minted by a new mapper is 1000 and the next one 1001.
C12_AutoCreateExample ==
  /\ AutoCreateCallOn(MapA1, TagsAZzz) =>
       /\ ProducedTagIds = <<PyInt(1), PyInt(2)>>
       /\ HasKey(heap["working_tag_map"], Str_zzz)
       /\ Lookup(heap["working_tag_map"], Str_zzz) = PyInt(2)
  /\ AutoCreateCallOn(MapA1, TagsAZzzZzz2) =>
       /\ ProducedTagIds = <<PyInt(1), PyInt(2), PyInt(2)>>
       /\ ~HasKey(heap["working_tag_map"], Str_zzz2)
  /\ AutoCreateCallOn(<<>>, TagsAZzz) =>
       /\ ProducedTagIds = <<PyInt(1000), PyInt(1001)>>
       /\ Lookup(heap["working_tag_map"], Str_zzz) = PyInt(1001)

\* The example call with the three tags has returned.
C12_Witness == AutoCreateCallOn(MapA1, TagsAZzzZzz2) /\ Len(ProducedTagIds) = 3

\* The index of the first entry of d, in iteration order, whose key contains
\* the tag or is contained in it; 0 when there is none.
FirstSubstringIndex(t, d) ==
  LET hits == {i \in 1..Len(d) : IsSubstring(t, d[i].k) \/ IsSubstring(d[i].k, t)}
  IN IF hits = {} THEN 0 ELSE CHOOSE i \in hits : \A j \in hits : i <= j

\* What rules (a) and (b) give a tag against the tag map d: the id of the
\* exact key, else the id of the first substring entry, else nothing.
RuleAB(t, d) ==
  IF \E i \in 1..Len(d) : d[i].k = t
    THEN <<d[CHOOSE i \in 1..Len(d) : d[i].k = t].v>>
  ELSE IF FirstSubstringIndex(t, d) # 0
    THEN <<d[FirstSubstringIndex(t, d)].v>>
  ELSE <<>>

MapReturned == mapper_pc = "mapped" \/ (mapper_pc = "validated" /\ mapper_out.success)

\* C14: map_to_api_schema returns success=true with a mapped record for
\* every dict input, whatever its fields hold, and success=false only for an
\* input that is not a dict.
C14_DictInputAlwaysMapped ==
  MapReturned => (mapper_out.success <=> mapper_in.isDict)

\* C15: when the input's description is absent or the empty string, the
\* mapped description is "Model " followed by the name.
C15_DescriptionDefault ==
  (MapReturned /\ mapper_out.success
     /\ (mapper_in.m.description = Absent \/ mapper_in.m.description = PyStr(<<>>))) =>
    mapper_out.mapped_model.description
      = PyStr(Str_Model_space \o mapper_out.mapped_model.name.s)

\* The first non-empty value of the three sources of a reference link.
FirstNonEmptyLink(m) ==
  IF Truthy(m.referenceLink) THEN m.referenceLink
  ELSE IF m.metadata.t = "dict" /\ m.metadata.hf = "dict" /\ Truthy(m.metadata.url)
    THEN m.metadata.url
  ELSE PyStr(placeholder_url)

\* C16: the mapped referenceLink is the first non-empty value of the
\* input's referenceLink, metadata.huggingface.url and the placeholder URL,
\* hence never empty.
C16_ReferenceLinkFirstNonEmpty ==
  (MapReturned /\ mapper_out.success) =>
    /\ mapper_out.mapped_model.referenceLink = FirstNonEmptyLink(mapper_in.m)
    /\ Truthy(mapper_out.mapped_model.referenceLink)

\* The five checks of the validation, each with the message it reports, and
\* whether the dict a violates the check.
Checks == {"modelId", "name", "description", "tagIds", "referenceLink"}
MessageOf(check) ==
  CASE check = "modelId" -> "Missing required field: modelId"
    [] check = "name" -> "Missing required field: name"
    [] check = "description" -> "Missing required field: description"
    [] check = "tagIds" -> "Missing or invalid tagIds (must be a list)"
    [] check = "referenceLink" -> "Missing referenceLink"
Violates(a, check) ==
  IF check = "tagIds" THEN a.tagIds = Absent \/ a.tagIds.t # "list"
  ELSE a[check] = Absent \/ a[check] = PyNone \/ a[check] = PyStr(<<>>)

\* C17: validate_api_model reports every violated check: errors holds
\* exactly one entry per violated check and nothing else, and valid is true
\* exactly when no check is violated.
C17_AllViolationsReported ==
  mapper_pc = "validated" =>
    LET violated == {c \in Checks : Violates(api_in, c)}
        errors == validation_out.errors
    IN /\ Len(errors) = Cardinality(violated)
       /\ \A c \in violated :
            Cardinality({i \in 1..Len(errors) : errors[i] = MessageOf(c)}) = 1
       /\ validation_out.valid <=> violated = {}

\* A validation of a dict that violates several checks at once.
C17_Witness ==
  /\ mapper_pc = "validated"
  /\ Cardinality({c \in Checks : Violates(api_in, c)}) = 5
  /\ Len(validation_out.errors) = 5
  /\ ~validation_out.valid

(***************************************************************************)
(* Claims about the directory passes                                       *)
(***************************************************************************)

\* How many entries of a list of file stems name the stem.
Occurrences(list, stem) == Cardinality({i \in 1..Len(list) : list[i] = stem})

\* C18: when map_directory returns from a pass over n input files, each
\* input is in exactly one of mapped_models and failed_models, success is
\* true exactly when failed_models is empty, an output file named after the
\* input's stem exists exactly for the inputs in mapped_models, and a record
\* that failed validation did not stop the records after it.
C18_MapDirectoryAggregate ==
  (map_pc = "done" /\ map_result.error = "" /\ map_n > 0) =>
    /\ \A stem \in 1..map_n :
         Occurrences(mapped_models, stem) + Occurrences(failed_models, stem) = 1
    /\ Len(mapped_models) + Len(failed_models) = map_n
    /\ map_result.success <=> (failed_models = <<>>)
    /\ {f.stem : f \in out_dir} = {mapped_models[i] : i \in 1..Len(mapped_models)}
    /\ Cardinality(out_dir) = Len(mapped_models)
    /\ Len(map_log) = map_n
    /\ \A i \in 1..map_n : map_log[i].stem = i

\* A pass that returned success=false with a record mapped and written
\* after an earlier record had failed validation.
C18_Witness ==
  /\ map_pc = "done" /\ map_result.returned /\ ~map_result.success
  /\ map_n > 1 /\ Len(map_log) = map_n
  /\ map_log[1].event = "Validation failed"
  /\ map_log[map_n].event = "Mapped"
  /\ Len(failed_models) = 1
  /\ Cardinality(out_dir) = map_n - 1


\* A file no record can be read from: malformed JSON, or JSON that is no
\* object.
Unreadable(c) == ReadRaises(c) \/ ~c.isDict

\* A pass that returned its structured failure for a missing input
\* directory, having processed nothing.
MissingDirOutcome(result, processed) ==
  /\ result.returned
  /\ ~result.success
  /\ processed = 0

\* What the state records of the three passes: a file logged as an error or
\* a failure is among the failed items, a loop that ended has visited every
\* file, a pass that met a failure returned success = false, and a pass over
\* a missing directory returned success = false with no file processed.
DirPassesRecord ==
  /\ \A i \in 1..Len(tag_log) :
       tag_log[i].event # "Tagged" => Occurrences(failed_tag_models, tag_log[i].stem) = 1
  /\ \A i \in 1..Len(map_log) :
       map_log[i].event # "Mapped" => Occurrences(failed_models, map_log[i].stem) = 1
  /\ Len(tag_log) = tag_idx /\ Len(map_log) = map_idx /\ Len(visited) = seed_idx
  /\ tag_dir_pc = "done" /\ tag_dir_result.error = "" => Len(tag_log) = tag_n
  /\ map_pc = "done" /\ map_result.error = "" => Len(map_log) = map_n
  /\ seed_dir_pc = "done" /\ seed_dir_result.error = ""
       => Len(visited) = Len(model_files)
  /\ tag_dir_pc = "done" /\ failed_tag_models # <<>>
       => tag_dir_result.returned /\ ~tag_dir_result.success
  /\ map_pc = "done" /\ failed_models # <<>>
       => map_result.returned /\ ~map_result.success
  /\ seed_dir_pc = "done" /\ failed_seeds # <<>>
       => seed_dir_result.returned /\ ~seed_dir_result.success
  /\ tag_dir_result.error = "Input directory not found"
       => MissingDirOutcome(tag_dir_result, Len(tag_log))
  /\ map_result.error = "Input directory not found"
       => MissingDirOutcome(map_result, Len(map_log))
  /\ seed_dir_result.error = "Input directory not found"
       => MissingDirOutcome(seed_dir_result, Len(visited))

UnreadableTagDirFiles == {c \in TagDirFiles : Unreadable(c)}
UnreadableInputFiles == {c \in InputFiles : Unreadable(c)}

\* What each loop iteration does with an unreadable file: the file becomes
\* the next failed item and the loop goes on (it is not left, and nothing
\* is written or submitted for the file).
UnreadableFileStep ==
  /\ \A c \in UnreadableTagDirFiles :
       TagFile(c)
         => /\ failed_tag_models' = Append(failed_tag_models, tag_idx + 1)
            /\ tagged_models' = tagged_models
            /\ tag_dir_pc' = "loop"
  /\ \A c \in UnreadableInputFiles, now \in Clock :
       MapFile(c, now)
         => /\ failed_models' = Append(failed_models, map_idx + 1)
            /\ mapped_models' = mapped_models
            /\ map_pc' = "loop"
  /\ \A kind \in SeedModelKinds :
       SeedFile(kind) /\ Unreadable(model_files[seed_idx + 1].content)
         => /\ Len(failed_seeds') = Len(failed_seeds) + 1
            /\ failed_seeds'[Len(failed_seeds')].file = model_files[seed_idx + 1].stem
            /\ seeded_models' = seeded_models
            /\ submitted' = submitted
            /\ seed_dir_pc' = "loop"

\* C19: in every directory pass (tag mapping, model mapping, seeding) a file
\* holding malformed JSON or JSON that is no object is recorded as a failed
\* item, the remaining files are still processed, and the pass returns a
\* structured result with success = false; a missing input directory gives
\* a structured success = false with no file processed.
C19_DirectoryPassesIsolateBadFiles ==
  []DirPassesRecord /\ [][UnreadableFileStep]_vars

\* Each of the three passes met an unreadable first file, went on to a
\* second file that succeeded, and returned success = false.
TagPassIsolated ==
  /\ tag_dir_pc = "done" /\ Len(tag_log) = 2
  /\ tag_log[1].event = "Error processing" /\ tag_log[2].event = "Tagged"
  /\ failed_tag_models = <<1>> /\ tagged_models = <<2>>
  /\ tag_dir_result.returned /\ ~tag_dir_result.success
MapPassIsolated ==
  /\ map_pc = "done" /\ Len(map_log) = 2
  /\ map_log[1].event = "Error processing" /\ map_log[2].event = "Mapped"
  /\ failed_models = <<1>> /\ mapped_models = <<2>>
  /\ map_result.returned /\ ~map_result.success
SeedPassIsolated ==
  /\ seed_dir_pc = "done" /\ Len(visited) = 2
  /\ Len(failed_seeds) = 1 /\ failed_seeds[1].file = 1
  /\ Unreadable(model_files[1].content)
  /\ Len(seeded_models) = 1 /\ seeded_models[1].file = 2
  /\ seed_dir_result.returned /\ ~seed_dir_result.success
C19_Witness == TagPassIsolated


(***************************************************************************)
(* Claims about a record mapped and then validated                         *)
(***************************************************************************)

\* The input of the claim's case: a non-empty name, a list-valued tagIds,
\* no reference link and no enrichment provenance. The fields the claim
\* does not mention are read by the specification's own rules: no explicit
\* display name (it would be kept), and a modelId that is absent or
\* non-empty (only an absent one is derived).
PlainRecord(m) ==
  /\ m.name.t = "str" /\ m.name.s # <<>>
  /\ m.tagIds.t = "list"
  /\ ~Truthy(m.referenceLink)
  /\ m.metadata.t \in {"absent", "dict"} /\ m.metadata.hf = "absent"
  /\ m.display_name = Absent
  /\ m.modelId # PyStr(<<>>)

Str_Foo_Bar == <<"F", "o", "o", " ", "B", "a", "r">>

\* C20: for every input record with a non-empty name, a list-valued tagIds
\* and no reference link or enrichment provenance, the mapped record has
\* the input's tagIds verbatim, the placeholder as referenceLink, the
\* displayName built from the name ("Foo Bar" for "foo-bar"), and
\* validate_api_model returns zero errors for it.
C20_PlainRecordMapsAndValidates ==
  (MapReturned /\ mapper_in.isDict /\ PlainRecord(mapper_in.m)) =>
    /\ mapper_out.success
    /\ mapper_out.mapped_model.tagIds = mapper_in.m.tagIds
    /\ mapper_out.mapped_model.referenceLink = PyStr(placeholder_url)
    /\ (mapper_in.m.name = PyStr(Str_foo_bar)
          => mapper_out.mapped_model.displayName = PyStr(Str_Foo_Bar))
    /\ (mapper_pc = "validated"
          => validation_out.valid /\ validation_out.errors = <<>>)


(***************************************************************************)
(* Claims about records without tags                                       *)
(***************************************************************************)

\* The tags of the last call's model are absent or the empty list.
NoInputTags(m) == m.tags = Absent \/ m.tags = PyList(<<>>)

\* map_tags was given two dicts (validate_input let them through).
DictsGiven(result) == result.returned /\ result.error # "Invalid input"

\* After a call on a model without tags: success, tagIds == [], nothing
\* unresolved.
EmptyTagsOutcome ==
  (DictsGiven(tag_result) /\ NoInputTags(caller_before.model_data)) =>
    /\ tag_result.success
    /\ heap[tag_result.tagged_model].tagIds = PyList(<<>>)
    /\ tag_result.unmapped_tags = <<>>

\* A call on a model without tags leaves the counter where it was and adds
\* nothing to a working tag map.
EmptyTagsMintNothing ==
  (tag_calls' = tag_calls + 1 /\ DictsGiven(tag_result')
     /\ NoInputTags(caller_before'.model_data)) =>
    /\ tagger' = tagger
    /\ heap'["working_tag_map"] = <<>>
    /\ heap'["tag_map"] = caller_before'.tag_map

\* C21: for every model whose tags are absent or empty, under the strict and
\* the fallback mapper and for every tag map, map_tags returns success=true
\* with tagIds == [] and no unresolved tag, and mints no identifier.
C21_NoTagsGivesEmptyTagIds ==
  []EmptyTagsOutcome /\ [][EmptyTagsMintNothing]_vars

\* An auto-creating fallback mapper was called with a non-empty tag map on a
\* model without tags, after a call that had minted.
C21_Witness ==
  /\ tag_result.returned /\ tag_result.success
  /\ tag_calls = 2
  /\ tagger.class = "fallback" /\ tagger.auto_create_tags
  /\ tagger.next_tag_id > 1000
  /\ caller_before.model_data.tags = Absent
  /\ caller_before.tag_map # <<>>
  /\ heap[tag_result.tagged_model].tagIds = PyList(<<>>)


(***************************************************************************)
(* Claims about the skip flags of the command line                         *)
(***************************************************************************)

Executed(stage) == \E e \in 1..Len(executed) : executed[e] = stage

\* C22: a --skip-<stage> flag skips only the named stage: in a run that no
\* stage failed and that did not crash, every stage that is not itself
\* skipped has been executed when the process exits (with --skip-extract
\* alone: enrich, tag_map, model_map, seed and archive).
C22_SkipFlagSkipsOnlyItsStage ==
  (/\ main_pc = "exited"
   /\ ~crashed
   /\ \A k \in StageSet : summary[k] # "Failed")
    => \A j \in 1..Len(Stages) : Stages[j] \notin skipped => Executed(Stages[j])


(***************************************************************************)
(* Claims about auto-created tags in a directory pass                      *)
(***************************************************************************)

AutoCreatePass == tagger.class = "fallback" /\ tagger.auto_create_tags

\* The identifiers the tag map file holds.
TagMapIds(d) == {d[i].v : i \in 1..Len(d)}

DistinctNamesDistinctIds ==
  \A i, j \in 1..Len(created_tags) :
    created_tags[i].tag # created_tags[j].tag => created_tags[i].id # created_tags[j].id

MintedIdsAreNew ==
  \A i \in 1..Len(created_tags) : created_tags[i].id \notin TagMapIds(dir_tag_map.doc)

\* C23: within one directory pass of an auto-creating FallbackTagMapper, two
\* different normalized tag names that are both auto-created never receive
\* the same identifier, and no minted identifier equals an identifier the
\* tag map already holds.
C23_MintedIdsUnique ==
  AutoCreatePass => DistinctNamesDistinctIds /\ MintedIdsAreNew


\* No name is created twice in a pass.
CreatedOnce ==
  \A i, j \in 1..Len(created_tags) :
    created_tags[i].tag = created_tags[j].tag => i = j

\* The identifier the written record of file stem has at position k of its
\* tagIds (the fallback mapper with auto-create resolves every tag).
WrittenTagId(stem, k) ==
  LET f == CHOOSE g \in tag_out_dir : g.stem = stem
  IN f.content.doc.tagIds.l[k]

\* Every file written after a name was created resolves that name to the
\* identifier it was created with.
CreatedIdReused ==
  \A i \in 1..Len(created_tags) :
    \A s \in (created_tags[i].stem + 1)..tag_idx :
      (Occurrences(tagged_models, s) = 1 /\ tag_inputs[s].doc.tags.t = "list") =>
        \A k \in 1..Len(tag_inputs[s].doc.tags.l) :
          NormalizedTags(tag_inputs[s].doc.tags)[k] = created_tags[i].tag
            => WrittenTagId(s, k) = created_tags[i].id

\* C24: after a tag name has been auto-created with identifier X during a
\* directory pass, every later occurrence of the same normalized name, in
\* the same model or in a later model of the pass, resolves to X and mints
\* no new identifier.
C24_CreatedTagReusedInPass ==
  (AutoCreatePass /\ ~tag_prev.ran) => CreatedOnce /\ CreatedIdReused


(***************************************************************************)
(* Claims about a second pass over the same directory                      *)
(***************************************************************************)

\* Both calls of map_directory on this mapper instance have returned.
SecondPassReturned == tag_prev.ran /\ tag_prev.complete /\ tag_dir_pc = "done"

\* C25: the auto-create counter and the working tag map do not leak between
\* directory passes: two successive map_directory calls on one
\* FallbackTagMapper with the same input files and the same tag map file
\* write the same tagIds for every model, whatever the tag map holds.
C25_NoLeakBetweenPasses ==
  (tagger.class = "fallback" /\ SecondPassReturned) =>
    /\ tag_dir_result = tag_prev.result
    /\ tag_out_dir = tag_prev.out_dir


(***************************************************************************)
(* Claims about the identifiers the fallback mapper mints                  *)
(***************************************************************************)

\* The values of the identifiers of a tag map that are integers or digit
\* strings.
NumericIdValues(d) ==
  {d[i].v.n : i \in {j \in 1..Len(d) : d[j].v.t = "int"}}
    \cup {ParseInt(d[i].v.s) : i \in {j \in 1..Len(d) : d[j].v.t = "str" /\ IsDigitStr(d[j].v.s)}}

\* The largest value of a non-empty set of numbers.
Largest(S) == CHOOSE x \in S : \A y \in S \ {x} : y < x

\* The identifiers the last map_tags call minted, in order.
MintedIds ==
  LET c == CreatedTags(0, caller_before.tag_map, heap["working_tag_map"])
  IN [i \in 1..Len(c) |-> c[i].id]

AutoCreateCall ==
  /\ tag_result.returned /\ tag_result.success
  /\ tagger.class = "fallback" /\ tagger.auto_create_tags

C27_RetryIgnoresBody ==
  \A k \in 1..(retries - 1) :
    (/\ Len(responses) = k
     /\ responses[k].kind = "http"
     /\ responses[k].status >= 500)
      => seed_pc = "loop"


(***************************************************************************)
(* Claims about running a directory pass twice                             *)
(***************************************************************************)

\* What one complete run of the model mapper leaves in an empty output
\* directory: one file per input file that is read, mapped and validated.
MapsAndValidates(c, now) ==
  /\ ~ReadRaises(c)
  /\ MapToApiSchema(c.isDict, JsonLoad(c), now).success
  /\ ValidateApiModel(MapToApiSchema(c.isDict, JsonLoad(c), now).mapped_model).valid
SingleMapRun(files, now) ==
  {[stem |-> i,
    content |-> JsonDump(MapToApiSchema(TRUE, JsonLoad(files[i]), now).mapped_model)] :
     i \in {j \in 1..Len(files) : MapsAndValidates(files[j], now)}}

\* What one complete run of the strict tag mapper leaves in an empty output
\* directory.
StrictTagged(c, tm) ==
  SimpleMapTagsImpl([EmptyHeap EXCEPT !["model_data"] = JsonLoad(c),
                                      !["tag_map"] = tm.doc], SimpleTagger)
TagsStrictly(c, tm) ==
  ~ReadRaises(c) /\ c.isDict /\ tm.isDict /\ StrictTagged(c, tm).result.success
SingleTagRun(files, tm) ==
  {[stem |-> i,
    content |-> JsonDump(StrictTagged(files[i], tm).heap["tagged_model"])] :
     i \in {j \in 1..Len(files) : TagsStrictly(files[j], tm)}}

\* The second run of a pass has gone through its loop and returned.
MapRerunReturned ==
  map_rerun.first # "none" /\ map_pc = "done" /\ map_result.error = ""
TagRerunReturned ==
  tag_prev.ran /\ tagger.class = "simple" /\ tag_dir_pc = "done" /\ tag_dir_result.error = ""

\* C28: directory passes are idempotent on rerun: after the strict tag
\* map_directory, or the model map_directory with a frozen clock, has run
\* twice on an unchanged input directory (the first run complete or stopped
\* part-way), the output directory holds the files and contents of a single
\* complete run, one file per output name.
C28_RerunIdempotent ==
  /\ MapRerunReturned =>
       /\ out_dir = SingleMapRun(map_rerun.in_files, map_rerun.now)
       /\ \A f, g \in out_dir : f.stem = g.stem => f = g
  /\ TagRerunReturned =>
       /\ tag_out_dir = SingleTagRun(tag_inputs, dir_tag_map)
       /\ \A f, g \in tag_out_dir : f.stem = g.stem => f = g
       /\ tag_prev.complete => tag_out_dir = tag_prev.out_dir

\* The model mapper was stopped after writing the first of two files, was
\* run again and wrote both.
C28_Witness ==
  /\ MapRerunReturned
  /\ map_rerun.first = "interrupted"
  /\ map_n = 2 /\ mapped_models = <<1, 2>>
  /\ Cardinality(out_dir) = 2

\* The strict tag mapper was stopped after writing the first of two files,
\* was run again and wrote both.
TagRerunWitness ==
  /\ TagRerunReturned
  /\ ~tag_prev.complete /\ tag_prev.out_dir # {}
  /\ tag_n = 2 /\ tagged_models = <<1, 2>>
  /\ Cardinality(tag_out_dir) = 2


(***************************************************************************)
(* Claims about the output file names                                      *)
(***************************************************************************)

\* The files of the input directory the pass lists.
ListedFiles == {n \in name_dir : MatchesGlob(n)}

\* The pass has returned.
NamesPassReturned == name_pc = "done"

\* The name of a listed file before its ".json".
StemOfMatch(name) == SubSeq(name, 1, Len(name) - Len(Ext_json))

\* Every output file is named after the input it was written from: its stem
\* (the name before ".json", when there is one), the suffix of the stage,
\* ".json".
NamedAfterInput ==
  \A o \in name_outputs :
    StemOfMatch(o.from) # <<>> =>
      o.path = StemOfMatch(o.from) \o StageSuffixes[name_stage] \o Ext_json

\* Distinct input files have left distinct output files.
OneOutputPerInput ==
  /\ \A n \in ListedFiles : \E o \in name_outputs : o.from = n
  /\ \A o1, o2 \in name_outputs : o1.from # o2.from => o1.path # o2.path

\* C29: in a directory pass of the enricher, the tag mapper or the model
\* mapper, the output file of an input file is named stem + stage suffix +
\* ".json", and two distinct input files of the pass never write the same
\* output path.
C29_OutputNamesInjective ==
  NamesPassReturned => NamedAfterInput /\ OneOutputPerInput

\* The same, over directories that hold no file named ".json".
C29_InjectiveWithoutDotfile ==
  (NamesPassReturned /\ Ext_json \notin name_dir)
    => NamedAfterInput /\ OneOutputPerInput

\* Two listed files, both processed, and only one output file.
C29_Collision ==
  /\ NamesPassReturned
  /\ Cardinality(ListedFiles) = 2
  /\ Cardinality(name_outputs) = 1


(***************************************************************************)
(* Claims about the placeholder reference link                             *)
(***************************************************************************)

\* The input record carries a provenance URL: metadata.huggingface.url.
HasProvenanceUrl(m) ==
  m.metadata.t = "dict" /\ m.metadata.hf = "dict" /\ m.metadata.url.t # "absent"

\* map_to_api_schema has returned a record whose referenceLink is the
\* placeholder, for an input with neither a non-empty referenceLink nor a
\* provenance URL.
FellBackToPlaceholder ==
  /\ mapper_pc = "mapped"
  /\ mapper_in.isDict
  /\ mapper_out.success
  /\ mapper_out.mapped_model.referenceLink = PyStr(placeholder_url)
  /\ ~Truthy(mapper_in.m.referenceLink)
  /\ ~HasProvenanceUrl(mapper_in.m)

\* C30: whenever map_to_api_schema sets referenceLink to the placeholder URL
\* because the input has neither a non-empty referenceLink nor a provenance
\* URL, the call has logged the placeholder warning.
C30_PlaceholderIsLogged ==
  FellBackToPlaceholder => LogsPlaceholderWarning(mapper_in.m)

\* The same, over inputs whose metadata holds no 'huggingface' entry.
C30_LoggedWithoutHuggingfaceEntry ==
  (FellBackToPlaceholder /\ mapper_in.m.metadata.hf # "dict")
    => LogsPlaceholderWarning(mapper_in.m)

\* The fallback is taken for an input without metadata, and logged.
C30_LoggedFallback ==
  FellBackToPlaceholder /\ mapper_in.m.metadata = NoMetadata
    /\ LogsPlaceholderWarning(mapper_in.m)

====
